---------------------------- MODULE Spec2Model ----------------------------
(***************************************************************************)
(* Model of the ingestion and throttling control plane of ai-infra:        *)
(*   - ServiceBusManager        (app/services/azure/service_bus.py)        *)
(*   - ServiceBusQueueListener  (app/modules/servicebus/listener.py)       *)
(*     with its handler         (app/modules/servicebus/worker.py)         *)
(*   - fetch_recording_bytes    (app/modules/recording/service.py)         *)
(* Each component has its own specification over the shared variable list. *)
(***************************************************************************)
EXTENDS Integers, Sequences, FiniteSets, TLC

(***************************************************************************)
(* Bounds of the model.                                                    *)
(***************************************************************************)
\* messages the broker holds for the ServiceBusManager
NumMgrMessages == 2
\* largest batch one receive_messages call of the manager hands out
MaxMgrBatch == 2

\* messages the broker holds for the ServiceBusQueueListener
NumLsnMessages == 2

\* clock ticks per second: the resolution of the model's time
TicksPerSecond == 4
\* the clock stops at MaxTime ticks
MaxTime == 34
\* error responses the upstream gives while two callers fetch concurrently
MaxConcurrentErrors == 2
MaxCpuCount == 29
MaxErrorsCounted == 5
MaxRequestsPerMinute == 2
MaxAcquireCalls == 5
MaxLimiterTime == 10
MaxRetryAfterTicks == 40
MaxRetryAfterHeader == 3
MaxAttemptInput == 6

MgrMsgs == 1..NumMgrMessages
LsnMsgs == 1..NumLsnMessages

Max2(a, b) == IF a >= b THEN a ELSE b
Min2(a, b) == IF a <= b THEN a ELSE b

VARIABLES
  \* ---- ServiceBusManager ----
  running,          \* self.running
  executorShutdown, \* executor.shutdown() has been called
  active_tasks,     \* self.active_tasks
  mgrPc,            \* position of the _listen_to_queue thread
  mgrBatch,         \* messages of the received batch not yet examined
  mgrState,         \* broker side: "queued" | "delivered"
  unit,             \* position of the pool unit (or sync call) working on a message
  mgrCompletes,     \* receiver.complete_message calls made per message
  mgrResponses,     \* messages put on audio-response-queue per message
  mgrFallbackAfterPrimary, \* fallback transcription ran after the primary succeeded
  mgrTranscription, \* per message: how its primary and fallback transcription ended
  \* ---- ServiceBusQueueListener and its handler ----
  lsnHandler,       \* the handler the listener was constructed with
  shutdown_event,   \* self._shutdown_event
  task,             \* self._task: "none" | "alive"
  cancelRequested,  \* task.cancel() was called and not yet delivered
  stopPc,           \* position of the caller of stop()
  lsnPc,            \* the await the receive-loop task is suspended at
  lsnBatch,         \* messages of the received batch not yet handled
  lsnCur,           \* the message being handled (0: none)
  backoff,          \* local `backoff` of _run_loop
  lsnBody,          \* decoded body of each delivered message
  lsnState,         \* broker side: "queued" | "delivered"
  lsnCompletes,     \* receiver.complete_message calls per message
  lsnAbandons,      \* receiver.abandon_message calls per message
  lsnProcessed,     \* process_transcription_job invocations per message
  lsnThreads,       \* messages whose to_thread worker is still running
  lsnOutcome,       \* how the handler call for each message ended, if it has
  lsnJob,           \* how process_transcription_job ended for the handler
  lsnTasks,         \* receive-loop tasks created by start() and not yet ended
  lsnStartRaised,   \* the last start() call raised RuntimeError
  lsnErrors,        \* _receive_once failures since the last receive_messages
                    \* that returned (or since start())
  \* ---- fetch_recording_bytes (one call per caller thread) ----
  strict,           \* settings.RINGCENTRAL_STRICT_RATE_LIMIT
  callers,          \* the threads that call fetch_recording_bytes
  now,              \* time.time(), in ticks
  errorsLeft,       \* error responses the upstream may still give
  rc_next_allowed_at,              \* _rc_next_allowed_at
  rc_token_lock,                   \* holder of _rc_token_lock, or "free"
  rc_cached_direct_token,          \* _rc_cached_direct_token (0: None)
  rc_cached_direct_token_expiry,   \* _rc_cached_direct_token_expiry (-1: None)
  tokensIssued,     \* credential exchanges performed so far
  fpc,              \* position of each caller
  path,             \* "sdk" | "direct"
  attempt,          \* loop variable `attempt`
  relogin_done,     \* local of _try_platform_with_backoff
  force_refresh,    \* argument of the running _get_or_refresh_direct_token
  token,            \* local `token` of _try_direct_with_backoff (0: none)
  tok_now,          \* local `now` of _get_or_refresh_direct_token under the lock
  resp,             \* last_resp
  wait_s,           \* local wait_s / delay of the running sleep
  seen,             \* _rc_next_allowed_at as read for max(...)
  wake,             \* end of the running time.sleep
  retry_after,      \* RingCentralRateLimitActive.retry_after raised to the caller
  \* history of each call
  sent,             \* HTTP attempts sent: [sdk |-> n, direct |-> n]
  refreshes,        \* credential re-acquisitions after a 401
  consec401,        \* 401 responses in a row, up to the last response
  sawClientError,   \* a 4xx other than 401/408/429 was received
  shape,            \* "plain": only 5xx/408 without Retry-After so far,
                    \* "plain200": those followed by a 200, "other"
  slept,            \* ticks slept in backoff
  backoffUntil,     \* now + wait_s of the last backoff the caller recorded
  pauseUntil,       \* latest now + window a courtesy pause recorded
  tokHist,          \* per caller's _get_or_refresh_direct_token() call without
                    \* force: the callers inside it at the same time, the
                    \* exchanges it made, what it returned
  \* ---- one call of ServiceBusManager._can_process_more ----
  admission,        \* its inputs (host, counter, memory reading) and result
  \* ---- WhisperRateLimiter (tasks of one event loop call acquire) ----
  requests_per_minute, \* self.requests_per_minute
  request_times,    \* self.request_times, a deque(maxlen=requests_per_minute)
  lock,             \* the task holding self.lock, or "none"
  lockWaiters,      \* the tasks waiting for self.lock, in FIFO order
  wrlPc,            \* per task: "idle" | "waiting" | "sleeping"
  wrlWake,          \* the time at which the asyncio.sleep of the holder ends
  wrlNow,           \* time.time(), in half seconds since the first acquire()
  wrlCalls,         \* acquire() calls made
  wrlReturns,       \* the times at which acquire() calls returned, kept
                    \* until reset() is called
  wrlResetCalled,   \* reset() has been called
  \* ---- one request to an HTTP endpoint in front of the recording fetch ----
  http,             \* the endpoint, what its service call does, the response
  \* ---- one call of _retry_after_seconds ----
  retryCall,        \* the response and attempt it is given, its jitter draw, its result
  \* ---- one call of call_ringcentral_api (the recursion included) ----
  rcCall            \* its inputs, retry_count, forced refreshes, responses and end

mgrVars == <<running, executorShutdown, active_tasks, mgrPc, mgrBatch, mgrState,
             unit, mgrCompletes, mgrResponses, mgrFallbackAfterPrimary,
             mgrTranscription>>

lsnVars == <<lsnHandler, shutdown_event, task, cancelRequested, stopPc, lsnPc,
             lsnBatch, lsnCur, backoff, lsnBody, lsnState, lsnCompletes,
             lsnAbandons, lsnProcessed, lsnThreads, lsnOutcome,
             lsnJob, lsnTasks, lsnStartRaised, lsnErrors>>

fetchVars == <<strict, callers, now, errorsLeft, rc_next_allowed_at, rc_token_lock,
               rc_cached_direct_token, rc_cached_direct_token_expiry,
               tokensIssued, fpc, path, attempt, relogin_done, force_refresh,
               token, tok_now, resp, wait_s, seen, wake, retry_after, sent, refreshes,
               consec401, sawClientError, shape, slept, backoffUntil,
               pauseUntil, tokHist>>

admVars == <<admission>>

wrlVars == <<requests_per_minute, request_times, lock, lockWaiters, wrlPc,
             wrlWake, wrlNow, wrlCalls, wrlReturns, wrlResetCalled>>

httpVars == <<http>>

retryVars == <<retryCall>>
rcVars == <<rcCall>>

vars == <<mgrVars, lsnVars, fetchVars, admVars, wrlVars, httpVars, retryVars, rcVars>>

\* the variables of the other components, which a component's actions leave alone
notMgr == <<lsnVars, fetchVars, admVars, wrlVars, httpVars, retryVars, rcVars>>
notLsn == <<mgrVars, fetchVars, admVars, wrlVars, httpVars, retryVars, rcVars>>
notFetch == <<mgrVars, lsnVars, admVars, wrlVars, httpVars, retryVars, rcVars>>
notAdm == <<mgrVars, lsnVars, fetchVars, wrlVars, httpVars, retryVars, rcVars>>
notWrl == <<mgrVars, lsnVars, fetchVars, admVars, httpVars, retryVars, rcVars>>
notHttp == <<mgrVars, lsnVars, fetchVars, admVars, wrlVars, retryVars, rcVars>>
notRetry == <<mgrVars, lsnVars, fetchVars, admVars, wrlVars, httpVars, rcVars>>
notRc == <<mgrVars, lsnVars, fetchVars, admVars, wrlVars, httpVars, retryVars>>

(***************************************************************************)
(* ServiceBusManager                                                       *)
(***************************************************************************)
\* os.cpu_count() of the host
cpu_count == 1
\* self.max_workers = min(32, (self.cpu_count + 4)) on a host of `cpus` CPUs
MaxWorkers(cpus) == Min2(32, cpus + 4)
max_workers == MaxWorkers(cpu_count)
\* self.max_memory_percent = 85.0
max_memory_percent == 85
\* readings psutil.virtual_memory().percent can give; -1 stands for a failed read
MemoryReadings == {50, 85, 90, -1}

\* the memory check rejecting a reading equal to the ceiling (>= for >)
CanProcessMoreAtCeiling(workers, mem, active) ==
  IF mem = -1
    THEN active < workers \div 2
    ELSE IF active >= workers THEN FALSE
         ELSE IF mem >= max_memory_percent THEN FALSE
         ELSE TRUE
\* _can_process_more() of a manager with max_workers = `workers`: the
\* decision for one memory reading (-1: psutil raised, the except branch
\* returns self.active_tasks < self.max_workers // 2)
CanProcessMoreOf(workers, mem, active) ==
  IF mem = -1
    THEN active < workers \div 2
    ELSE IF active >= workers THEN FALSE
         ELSE IF mem > max_memory_percent THEN FALSE
         ELSE TRUE
CanProcessMore(mem, active) == CanProcessMoreOf(max_workers, mem, active)

\* one call of _can_process_more on a host of 1..MaxCpuCount CPUs, with the
\* counter anywhere between 0 and max_workers
AdmissionInputs ==
  {[cpus |-> c, active |-> a, mem |-> mem, called |-> FALSE, result |-> FALSE] :
     c \in 1..MaxCpuCount, a \in 0..MaxWorkers(MaxCpuCount),
     mem \in MemoryReadings}
AdmInit ==
  /\ admission \in AdmissionInputs
  /\ admission.active <= MaxWorkers(admission.cpus)
AdmIdle == AdmInit /\ admission.cpus = 1 /\ admission.active = 0 /\ admission.mem = 50
CanProcessMoreCall ==
  /\ ~admission.called
  /\ admission' = [admission EXCEPT
        !.called = TRUE,
        !.result = CanProcessMoreOf(MaxWorkers(admission.cpus), admission.mem,
                                    admission.active)]
  /\ UNCHANGED notAdm

\* pool units between the increment and the decrement of _process_message_wrapper
InWrapper == {"decode", "primary", "cmpl_primary", "fallback",
              "cmpl_fallback", "cmpl_fb_err", "cmpl_nourl", "cmpl_outer",
              "cmpl_async", "exit"}

MgrInit ==
  /\ running = TRUE
  /\ executorShutdown = FALSE
  /\ active_tasks = 0
  /\ mgrPc = "loop"
  /\ mgrBatch = <<>>
  /\ mgrState = [m \in MgrMsgs |-> "queued"]
  /\ unit = [m \in MgrMsgs |-> "none"]
  /\ mgrCompletes = [m \in MgrMsgs |-> 0]
  /\ mgrResponses = [m \in MgrMsgs |-> 0]
  /\ mgrFallbackAfterPrimary = [m \in MgrMsgs |-> FALSE]
  /\ mgrTranscription = [m \in MgrMsgs |-> [primary |-> "none", fallback |-> "none"]]

\* the messages still on the broker, oldest first
MgrQueued == {m \in MgrMsgs : mgrState[m] = "queued"}

RECURSIVE SeqOfSet(_)
SeqOfSet(S) ==
  IF S = {} THEN <<>>
  ELSE LET x == CHOOSE y \in S : \A z \in S : y <= z
       IN <<x>> \o SeqOfSet(S \ {x})

\* while self.running: (top of the loop of _listen_to_queue)
MgrLoop ==
  /\ mgrPc = "loop"
  /\ mgrPc' = IF running THEN "receive" ELSE "stopped"
  /\ UNCHANGED <<running, executorShutdown, active_tasks, mgrBatch, mgrState,
                 unit, mgrCompletes, mgrResponses, mgrFallbackAfterPrimary,
                 mgrTranscription>>
  /\ UNCHANGED notMgr

\* messages = receiver.receive_messages(max_wait_time=5, max_message_count=10)
MgrReceive ==
  /\ mgrPc = "receive"
  /\ \E k \in 0..Min2(MaxMgrBatch, Cardinality(MgrQueued)) :
        LET got == SubSeq(SeqOfSet(MgrQueued), 1, k)
        IN /\ mgrBatch' = got
           /\ mgrState' = [m \in MgrMsgs |->
                 IF \E i \in 1..k : got[i] = m THEN "delivered" ELSE mgrState[m]]
  /\ mgrPc' = "dispatch"
  /\ UNCHANGED <<running, executorShutdown, active_tasks, unit, mgrCompletes,
                 mgrResponses, mgrFallbackAfterPrimary,
                 mgrTranscription>>
  /\ UNCHANGED notMgr

\* receive_messages raises: except Exception -> print, then the loop's sleep
MgrReceiveError ==
  /\ mgrPc = "receive"
  /\ mgrPc' = "sleep"
  /\ UNCHANGED <<running, executorShutdown, active_tasks, mgrBatch, mgrState,
                 unit, mgrCompletes, mgrResponses, mgrFallbackAfterPrimary,
                 mgrTranscription>>
  /\ UNCHANGED notMgr

\* for msg in messages: if self.running and self._can_process_more()
MgrAdmit ==
  /\ mgrPc = "dispatch"
  /\ mgrBatch # <<>>
  /\ \E mem \in MemoryReadings :
        mgrPc' = IF running /\ CanProcessMore(mem, active_tasks)
                   THEN "submit" ELSE "sync"
  /\ UNCHANGED <<running, executorShutdown, active_tasks, mgrBatch, mgrState,
                 unit, mgrCompletes, mgrResponses, mgrFallbackAfterPrimary,
                 mgrTranscription>>
  /\ UNCHANGED notMgr

\* future = self.executor.submit(self._process_message_wrapper, ...)
MgrSubmit ==
  /\ mgrPc = "submit"
  /\ ~executorShutdown
  /\ unit' = [unit EXCEPT ![Head(mgrBatch)] = "queued"]
  /\ mgrBatch' = Tail(mgrBatch)
  /\ mgrPc' = "dispatch"
  /\ UNCHANGED <<running, executorShutdown, active_tasks, mgrState,
                 mgrCompletes, mgrResponses, mgrFallbackAfterPrimary,
                 mgrTranscription>>
  /\ UNCHANGED notMgr

\* submit after executor.shutdown(): RuntimeError, caught by the loop's
\* except Exception; the rest of the batch is never examined
MgrSubmitAfterShutdown ==
  /\ mgrPc = "submit"
  /\ executorShutdown
  /\ mgrBatch' = <<>>
  /\ mgrPc' = "sleep"
  /\ UNCHANGED <<running, executorShutdown, active_tasks, mgrState, unit,
                 mgrCompletes, mgrResponses, mgrFallbackAfterPrimary,
                 mgrTranscription>>
  /\ UNCHANGED notMgr

\* what the body of a manager message can be
MgrBodies == {"ok", "no_url", "bad_json", "bad_utf8"}

\* complete_message calls one _process_message_sync makes: one, or two when
\* the call of line 264 raises and the except block of line 267 calls again
SyncCompleteCalls(body, firstFails) ==
  IF body \in {"ok", "no_url"} /\ firstFails THEN 2 ELSE 1

\* _process_message_sync on the receiving thread: the message is completed
\* without being processed
MgrProcessSync ==
  /\ mgrPc = "sync"
  /\ \E body \in MgrBodies, firstFails \in BOOLEAN :
        mgrCompletes' = [mgrCompletes EXCEPT
                           ![Head(mgrBatch)] = @ + SyncCompleteCalls(body, firstFails)]
  /\ unit' = [unit EXCEPT ![Head(mgrBatch)] = "done"]
  /\ mgrBatch' = Tail(mgrBatch)
  /\ mgrPc' = "dispatch"
  /\ UNCHANGED <<running, executorShutdown, active_tasks, mgrState,
                 mgrResponses, mgrFallbackAfterPrimary,
                 mgrTranscription>>
  /\ UNCHANGED notMgr

\* end of the for loop: if self.running: time.sleep(1)
MgrBatchDone ==
  /\ mgrPc = "dispatch"
  /\ mgrBatch = <<>>
  /\ mgrPc' = "sleep"
  /\ UNCHANGED <<running, executorShutdown, active_tasks, mgrBatch, mgrState,
                 unit, mgrCompletes, mgrResponses, mgrFallbackAfterPrimary,
                 mgrTranscription>>
  /\ UNCHANGED notMgr

MgrSleep ==
  /\ mgrPc = "sleep"
  /\ mgrPc' = "loop"
  /\ UNCHANGED <<running, executorShutdown, active_tasks, mgrBatch, mgrState,
                 unit, mgrCompletes, mgrResponses, mgrFallbackAfterPrimary,
                 mgrTranscription>>
  /\ UNCHANGED notMgr

\* stop(): self.running = False; self.executor.shutdown(wait=True)
MgrStop ==
  /\ running
  /\ running' = FALSE
  /\ executorShutdown' = TRUE
  /\ UNCHANGED <<active_tasks, mgrPc, mgrBatch, mgrState, unit, mgrCompletes,
                 mgrResponses, mgrFallbackAfterPrimary,
                 mgrTranscription>>
  /\ UNCHANGED notMgr

\* ---- one pool unit: _process_message_wrapper ----

\* with self.task_lock: self.active_tasks += 1
ActiveTasksAfterEnter(n) == n + 1
\* the decrement made in the except block as well as in the finally block
ActiveTasksAfterExitTwice(n) == n - 2
\* finally: with self.task_lock: self.active_tasks -= 1
ActiveTasksAfterExit(n) == n - 1

PoolBusy == Cardinality({m \in MgrMsgs : unit[m] \in InWrapper})

WrapperEnter(m) ==
  /\ unit[m] = "queued"
  /\ PoolBusy < max_workers
  /\ active_tasks' = ActiveTasksAfterEnter(active_tasks)
  /\ unit' = [unit EXCEPT ![m] = "decode"]
  /\ UNCHANGED <<running, executorShutdown, mgrPc, mgrBatch, mgrState,
                 mgrCompletes, mgrResponses, mgrFallbackAfterPrimary,
                 mgrTranscription>>
  /\ UNCHANGED notMgr

\* _process_message_async: body = b''.join(msg.body).decode('utf-8'), then
\* _process_audio_message: json.loads(body), message_data.get('audio_url')
WrapperDecode(m) ==
  /\ unit[m] = "decode"
  /\ \E body \in MgrBodies :
        unit' = [unit EXCEPT ![m] =
                   CASE body = "bad_utf8" -> "cmpl_async"
                     [] body = "bad_json" -> "cmpl_outer"
                     [] body = "no_url"   -> "cmpl_nourl"
                     [] OTHER             -> "primary"]
  /\ UNCHANGED <<running, executorShutdown, active_tasks, mgrPc, mgrBatch,
                 mgrState, mgrCompletes, mgrResponses, mgrFallbackAfterPrimary,
                 mgrTranscription>>
  /\ UNCHANGED notMgr

\* send_message: a no-op unless the client is there and self.running
ResponsesAfterSend(n) == IF running THEN n + 1 ELSE n

\* primary transcription (_transcribe_ringcentral_content), then
\* send_message(..., "audio-response-queue") on success
WrapperPrimary(m) ==
  /\ unit[m] = "primary"
  /\ \E ok \in BOOLEAN :
       /\ mgrTranscription' = [mgrTranscription EXCEPT
             ![m].primary = IF ok THEN "ok" ELSE "failed"]
       /\ IF ok
           THEN /\ mgrResponses' = [mgrResponses EXCEPT ![m] = ResponsesAfterSend(@)]
                /\ unit' = [unit EXCEPT ![m] = "cmpl_primary"]
           ELSE /\ unit' = [unit EXCEPT ![m] = "fallback"]
                /\ UNCHANGED mgrResponses
  /\ UNCHANGED <<running, executorShutdown, active_tasks, mgrPc, mgrBatch,
                 mgrState, mgrCompletes, mgrFallbackAfterPrimary>>
  /\ UNCHANGED notMgr

\* receiver.complete_message(msg) at position `at`; when the call raises the
\* unit goes on at `onRaise`, the except block that catches it
CompleteAt(m, at, onRaise) ==
  /\ unit[m] = at
  /\ mgrCompletes' = [mgrCompletes EXCEPT ![m] = @ + 1]
  /\ \E raises \in BOOLEAN :
        unit' = [unit EXCEPT ![m] = IF raises THEN onRaise ELSE "exit"]
  /\ UNCHANGED <<running, executorShutdown, active_tasks, mgrPc, mgrBatch,
                 mgrState, mgrResponses, mgrTranscription>>
  /\ UNCHANGED notMgr

\* line 206: complete after the primary response; a raise lands in
\* `except Exception as primary_error`, which runs the fallback transcription
WrapperCompletePrimary(m) ==
  /\ CompleteAt(m, "cmpl_primary", "fallback")
  /\ mgrFallbackAfterPrimary' =
        [mgrFallbackAfterPrimary EXCEPT ![m] = (unit'[m] = "fallback")]

\* a fallback that reports its failure on the response queue
WrapperFallbackSendsError(m) ==
  /\ unit[m] = "fallback"
  /\ \E ok \in BOOLEAN :
       /\ mgrTranscription' = [mgrTranscription EXCEPT
             ![m].fallback = IF ok THEN "ok" ELSE "failed"]
       /\ mgrResponses' = [mgrResponses EXCEPT ![m] = ResponsesAfterSend(@)]
       /\ unit' = [unit EXCEPT ![m] = IF ok THEN "cmpl_fallback" ELSE "cmpl_fb_err"]
  /\ UNCHANGED <<running, executorShutdown, active_tasks, mgrPc, mgrBatch,
                 mgrState, mgrCompletes, mgrFallbackAfterPrimary>>
  /\ UNCHANGED notMgr
\* fallback transcription (transcribe_from_url), send_message on success
WrapperFallback(m) ==
  /\ unit[m] = "fallback"
  /\ \E ok \in BOOLEAN :
       /\ mgrTranscription' = [mgrTranscription EXCEPT
             ![m].fallback = IF ok THEN "ok" ELSE "failed"]
       /\ IF ok
           THEN /\ mgrResponses' = [mgrResponses EXCEPT ![m] = ResponsesAfterSend(@)]
                /\ unit' = [unit EXCEPT ![m] = "cmpl_fallback"]
           ELSE /\ unit' = [unit EXCEPT ![m] = "cmpl_fb_err"]
                /\ UNCHANGED mgrResponses
  /\ UNCHANGED <<running, executorShutdown, active_tasks, mgrPc, mgrBatch,
                 mgrState, mgrCompletes, mgrFallbackAfterPrimary>>
  /\ UNCHANGED notMgr

\* line 220: a raise lands in `except Exception as fallback_error`
WrapperCompleteFallback(m) ==
  /\ CompleteAt(m, "cmpl_fallback", "cmpl_fb_err")
  /\ UNCHANGED mgrFallbackAfterPrimary

\* line 225: a raise lands in the outer `except Exception as e`
WrapperCompleteFallbackError(m) ==
  /\ CompleteAt(m, "cmpl_fb_err", "cmpl_outer")
  /\ UNCHANGED mgrFallbackAfterPrimary

\* line 187 (no audio_url): a raise lands in the outer except
WrapperCompleteNoUrl(m) ==
  /\ CompleteAt(m, "cmpl_nourl", "cmpl_outer")
  /\ UNCHANGED mgrFallbackAfterPrimary

\* line 231: try: complete_message except: pass
WrapperCompleteOuter(m) ==
  /\ CompleteAt(m, "cmpl_outer", "exit")
  /\ UNCHANGED mgrFallbackAfterPrimary

\* line 173 (_process_message_async's except): try: complete except: pass
WrapperCompleteAsync(m) ==
  /\ CompleteAt(m, "cmpl_async", "exit")
  /\ UNCHANGED mgrFallbackAfterPrimary

WrapperExit(m) ==
  /\ unit[m] = "exit"
  /\ active_tasks' = ActiveTasksAfterExit(active_tasks)
  /\ unit' = [unit EXCEPT ![m] = "done"]
  /\ UNCHANGED <<running, executorShutdown, mgrPc, mgrBatch, mgrState,
                 mgrCompletes, mgrResponses, mgrFallbackAfterPrimary,
                 mgrTranscription>>
  /\ UNCHANGED notMgr

MgrNext ==
  \/ MgrLoop
  \/ MgrReceive
  \/ MgrReceiveError
  \/ MgrAdmit
  \/ MgrSubmit
  \/ MgrSubmitAfterShutdown
  \/ MgrProcessSync
  \/ MgrBatchDone
  \/ MgrSleep
  \/ MgrStop
  \/ \E m \in MgrMsgs :
       \/ WrapperEnter(m)
       \/ WrapperDecode(m)
       \/ WrapperPrimary(m)
       \/ WrapperCompletePrimary(m)
       \/ WrapperFallback(m)
       \/ WrapperCompleteFallback(m)
       \/ WrapperCompleteFallbackError(m)
       \/ WrapperCompleteNoUrl(m)
       \/ WrapperCompleteOuter(m)
       \/ WrapperCompleteAsync(m)
       \/ WrapperExit(m)

(***************************************************************************)
(* ServiceBusQueueListener with handle_audio_processing_message            *)
(***************************************************************************)
\* max_message_count of the constructor (default)
max_message_count == 5
\* reconnect_backoff and backoff_max of the constructor (defaults)
reconnect_backoff == 5
backoff_max == 60
\* self._initial_backoff = max(1.0, reconnect_backoff)
InitialBackoff == Max2(1, reconnect_backoff)
\* self._backoff_max = max(self._initial_backoff, backoff_max)
BackoffCap == Max2(InitialBackoff, backoff_max)

\* Decoded bodies (_decode_body): a JSON object, of which only the two keys
\* from_payload looks at are kept ("none": key absent), or anything else.
CallIdValues == {"none", "", "c1"}
CallIdAliasValues == {"none", "c2"}
\* what the bytes of a message body can be
RawBodyKinds == {"empty", "non_utf8", "non_json_text", "json_non_object",
                 "json_object"}
\* _decode_body: the Python type of the decoded body.  Empty bytes give
\* None, bytes that are not UTF-8 are returned as bytes, text that is not
\* JSON as str, and JSON text as whatever json.loads returns (a dict for an
\* object, here a list for anything else)
DecodeBody(raw) ==
  CASE raw = "empty"           -> "none"
    [] raw = "non_utf8"        -> "bytes"
    [] raw = "non_json_text"   -> "text"
    [] raw = "json_non_object" -> "list"
    [] OTHER                   -> "dict"
LsnBodies ==
  [kind : {DecodeBody("json_object")}, callId : CallIdValues,
   call_id : CallIdAliasValues]
    \cup {[kind |-> DecodeBody(raw), callId |-> "none", call_id |-> "none"] :
            raw \in RawBodyKinds \ {"json_object"}}
NoBody == [kind |-> "undelivered", callId |-> "none", call_id |-> "none"]

\* Python truthiness of payload.get(key)
Truthy(v) == v \notin {"none", ""}
\* a or b
PyOr(a, b) == IF Truthy(a) THEN a ELSE b

\* AudioProcessingMessage.from_payload: the call_id of the message, or
\* "ValueError" when the payload has none
FromPayload(payload) ==
  LET call_id == PyOr(payload.callId, payload.call_id)
  IN IF ~Truthy(call_id) THEN "ValueError" ELSE call_id

\* a to_payload that rebuilds the payload from the parsed callId alone
ProcessorPayloadFromFields(payload) ==
  [k \in DOMAIN payload |-> IF k = "call_id" THEN "none" ELSE payload[k]]
\* message.to_payload() of the message from_payload built: dict(self.raw),
\* a dict with the keys and values of the payload kept in `raw`
ProcessorPayload(payload) ==
  LET raw == payload IN [k \in DOMAIN raw |-> raw[k]]

\* handle_audio_processing_message up to its await: TRUE when it reaches
\* asyncio.to_thread(_process), FALSE when it returns before (non-dict
\* payload, or from_payload raised ValueError)
WorkerReachesProcess(body) ==
  /\ body.kind = "dict"
  /\ FromPayload(body) # "ValueError"

\* does the handler suspend (await) for this body
HandlerSuspends(body) ==
  IF lsnHandler = "worker" THEN WorkerReachesProcess(body) ELSE TRUE

LsnInit ==
  /\ lsnHandler \in {"worker", "other"}
  /\ shutdown_event = FALSE
  /\ task = "none"
  /\ cancelRequested = FALSE
  /\ stopPc = "idle"
  /\ lsnPc = "notstarted"
  /\ lsnBatch = <<>>
  /\ lsnCur = 0
  /\ backoff = InitialBackoff
  /\ lsnBody = [m \in LsnMsgs |-> NoBody]
  /\ lsnState = [m \in LsnMsgs |-> "queued"]
  /\ lsnCompletes = [m \in LsnMsgs |-> 0]
  /\ lsnAbandons = [m \in LsnMsgs |-> 0]
  /\ lsnProcessed = [m \in LsnMsgs |-> 0]
  /\ lsnThreads = {}
  /\ lsnOutcome = [m \in LsnMsgs |-> "none"]
  /\ lsnJob = [m \in LsnMsgs |-> "none"]
  /\ lsnTasks = 0
  /\ lsnStartRaised = FALSE
  /\ lsnErrors = 0

\* a task that reaches the end of _run_loop, or that CancelledError leaves,
\* no longer exists
TasksAfter(pcBefore, pcAfter, n) ==
  IF pcAfter = "ended" /\ pcBefore # "ended" THEN n - 1 ELSE n

LsnQueued == {m \in LsnMsgs : lsnState[m] = "queued"}

\* The receive-loop task runs from one await to the next without interruption
\* (one event loop).  LsnContinue is the for loop of _receive_once over the
\* rest `b` of the batch, up to the next await: the handler's to_thread, or
\* the complete_message call after a handler that returned at once, or the
\* next receive_messages call.
LsnContinue(b, bodies) ==
  IF b = <<>>
    THEN /\ lsnPc' = IF shutdown_event THEN "ended" ELSE "receiving"
         /\ lsnCur' = 0
         /\ lsnBatch' = <<>>
         /\ UNCHANGED <<lsnCompletes, lsnProcessed, lsnThreads, lsnOutcome>>
    ELSE LET m == Head(b)
         IN /\ lsnCur' = m
            /\ lsnBatch' = Tail(b)
            /\ IF HandlerSuspends(bodies[m])
                 THEN /\ lsnPc' = "handling"
                      /\ IF lsnHandler = "worker"
                           THEN /\ lsnProcessed' = [lsnProcessed EXCEPT ![m] = @ + 1]
                                /\ lsnThreads' = lsnThreads \cup {m}
                           ELSE UNCHANGED <<lsnProcessed, lsnThreads>>
                      /\ UNCHANGED <<lsnCompletes, lsnOutcome>>
                 ELSE /\ lsnPc' = "completing"
                      /\ lsnOutcome' = [lsnOutcome EXCEPT ![m] = "returned"]
                      /\ lsnCompletes' = [lsnCompletes EXCEPT ![m] = @ + 1]
                      /\ UNCHANGED <<lsnProcessed, lsnThreads>>

\* start(): raises when self._task is not None, else clears the event and
\* creates the task, which runs _run_loop up to its first receive_messages
LsnStart ==
  /\ task = "none"
  /\ stopPc = "idle"
  /\ shutdown_event' = FALSE
  /\ task' = "alive"
  /\ lsnPc' = "receiving"
  /\ backoff' = InitialBackoff
  /\ lsnBatch' = <<>>
  /\ lsnCur' = 0
  /\ UNCHANGED <<lsnHandler, cancelRequested, stopPc, lsnBody, lsnState,
                 lsnCompletes, lsnAbandons, lsnProcessed, lsnThreads>>
  /\ UNCHANGED <<lsnOutcome, lsnJob>>
  /\ lsnTasks' = lsnTasks + 1
  /\ lsnStartRaised' = FALSE
  /\ lsnErrors' = 0
  /\ UNCHANGED notLsn

\* start() without the `self._task is not None` check: a further task
LsnStartAgainCreatesTask ==
  /\ task # "none"
  /\ shutdown_event' = FALSE
  /\ lsnTasks' = lsnTasks + 1
  /\ lsnStartRaised' = FALSE
  /\ UNCHANGED <<lsnHandler, task, cancelRequested, stopPc,
                 lsnPc, lsnBatch, lsnCur, backoff, lsnBody, lsnState,
                 lsnCompletes, lsnAbandons, lsnProcessed, lsnThreads,
                 lsnOutcome, lsnJob, lsnErrors>>
  /\ UNCHANGED notLsn
\* start() on a started listener: RuntimeError before anything is assigned
LsnStartAgain ==
  /\ task # "none"
  /\ lsnStartRaised' = TRUE
  /\ UNCHANGED <<lsnHandler, shutdown_event, task, cancelRequested, stopPc,
                 lsnPc, lsnBatch, lsnCur, backoff, lsnBody, lsnState,
                 lsnCompletes, lsnAbandons, lsnProcessed, lsnThreads,
                 lsnOutcome, lsnJob, lsnTasks, lsnErrors>>
  /\ UNCHANGED notLsn

\* receiver.receive_messages returns a batch (possibly empty)
LsnReceive ==
  /\ lsnPc = "receiving"
  /\ ~cancelRequested
  /\ \E k \in 0..Min2(max_message_count, Cardinality(LsnQueued)) :
       LET got == SubSeq(SeqOfSet(LsnQueued), 1, k)
           gotSet == {got[i] : i \in 1..k}
       IN \E newBodies \in [gotSet -> LsnBodies] :
            LET bodies == [m \in LsnMsgs |->
                             IF m \in gotSet THEN newBodies[m] ELSE lsnBody[m]]
            IN /\ lsnBody' = bodies
               /\ lsnState' = [m \in LsnMsgs |->
                                 IF m \in gotSet THEN "delivered" ELSE lsnState[m]]
               /\ LsnContinue(got, bodies)
  /\ UNCHANGED <<lsnHandler, shutdown_event, task, cancelRequested, stopPc,
                 backoff, lsnAbandons>>
  /\ UNCHANGED lsnJob
  /\ lsnTasks' = TasksAfter(lsnPc, lsnPc', lsnTasks)
  /\ lsnErrors' = 0
  /\ UNCHANGED lsnStartRaised
  /\ UNCHANGED notLsn

\* receive_messages (or opening the client) raises: _run_loop logs and
\* sleeps `backoff`
LsnReceiveError ==
  /\ lsnPc = "receiving"
  /\ ~cancelRequested
  /\ lsnPc' = "backoff"
  /\ UNCHANGED <<lsnHandler, shutdown_event, task, cancelRequested, stopPc,
                 lsnBatch, lsnCur, backoff, lsnBody, lsnState, lsnCompletes,
                 lsnAbandons, lsnProcessed, lsnThreads>>
  /\ UNCHANGED <<lsnOutcome, lsnJob>>
  /\ lsnTasks' = TasksAfter(lsnPc, lsnPc', lsnTasks)
  /\ UNCHANGED <<lsnStartRaised, lsnErrors>>
  /\ UNCHANGED notLsn

\* backoff = min(backoff * 2, self._backoff_max)
NextBackoff(b) == Min2(b * 2, BackoffCap)

\* a loop that gives up once the backoff has reached its cap
LsnBackoffGivesUp ==
  /\ lsnPc = "backoff"
  /\ ~cancelRequested
  /\ backoff' = NextBackoff(backoff)
  /\ lsnPc' = IF shutdown_event \/ backoff = BackoffCap THEN "ended" ELSE "receiving"
  /\ lsnBatch' = <<>>
  /\ lsnCur' = 0
  /\ lsnTasks' = TasksAfter(lsnPc, lsnPc', lsnTasks)
  /\ lsnErrors' = Min2(lsnErrors + 1, MaxErrorsCounted)
  /\ UNCHANGED <<lsnHandler, shutdown_event, task, cancelRequested, stopPc,
                 lsnBody, lsnState, lsnCompletes, lsnAbandons, lsnProcessed,
                 lsnThreads, lsnOutcome, lsnJob, lsnStartRaised>>
  /\ UNCHANGED notLsn
\* asyncio.sleep(backoff) returns; the loop doubles the backoff and calls
\* _receive_once again
LsnBackoffDone ==
  /\ lsnPc = "backoff"
  /\ ~cancelRequested
  /\ backoff' = NextBackoff(backoff)
  /\ lsnPc' = IF shutdown_event THEN "ended" ELSE "receiving"
  /\ lsnBatch' = <<>>
  /\ lsnCur' = 0
  /\ UNCHANGED <<lsnHandler, shutdown_event, task, cancelRequested, stopPc,
                 lsnBody, lsnState, lsnCompletes, lsnAbandons, lsnProcessed,
                 lsnThreads>>
  /\ UNCHANGED <<lsnOutcome, lsnJob>>
  /\ lsnTasks' = TasksAfter(lsnPc, lsnPc', lsnTasks)
  /\ lsnErrors' = Min2(lsnErrors + 1, MaxErrorsCounted)
  /\ UNCHANGED lsnStartRaised
  /\ UNCHANGED notLsn

\* the thread started by asyncio.to_thread(_process) ends; this is
\* independent of the task that awaited it
LsnThreadEnds(m) ==
  /\ m \in lsnThreads
  /\ ~(lsnPc = "handling" /\ lsnCur = m /\ ~cancelRequested)
  /\ lsnThreads' = lsnThreads \ {m}
  /\ UNCHANGED <<lsnHandler, shutdown_event, task, cancelRequested, stopPc,
                 lsnPc, lsnBatch, lsnCur, backoff, lsnBody, lsnState,
                 lsnCompletes, lsnAbandons, lsnProcessed>>
  /\ UNCHANGED <<lsnOutcome, lsnJob>>
  /\ lsnTasks' = TasksAfter(lsnPc, lsnPc', lsnTasks)
  /\ UNCHANGED <<lsnStartRaised, lsnErrors>>
  /\ UNCHANGED notLsn

\* how the awaited _process can end: it returns, or process_transcription_job
\* raises TranscriptionJobError (_maybe_transcribe wraps every failure of the
\* audio download or transcription in one), or another Exception, such as
\* RingCentralRateLimitActive, leaves it
JobOutcomes == {"ok", "TranscriptionJobError", "RingCentralRateLimitActive",
                "Exception"}

\* a handler without the catch-all clause: RingCentralRateLimitActive leaves it
WorkerHandlerEndsUncaught(outcome) ==
  IF outcome = "RingCentralRateLimitActive" THEN "raises" ELSE "returns"
\* worker.py lines 50-63: `except TranscriptionJobError` and `except Exception`
\* only log, so the handler returns normally whatever _process did
WorkerHandlerEnds(outcome) == "returns"

\* the awaited _process ends and the handler with it; the listener calls
\* complete_message after a return and abandon_message after a raise
LsnWorkerReturns ==
  /\ lsnPc = "handling"
  /\ lsnHandler = "worker"
  /\ ~cancelRequested
  /\ \E outcome \in JobOutcomes :
       /\ lsnJob' = [lsnJob EXCEPT ![lsnCur] = outcome]
       /\ lsnThreads' = lsnThreads \ {lsnCur}
       /\ IF WorkerHandlerEnds(outcome) = "returns"
            THEN /\ lsnCompletes' = [lsnCompletes EXCEPT ![lsnCur] = @ + 1]
                 /\ lsnOutcome' = [lsnOutcome EXCEPT ![lsnCur] = "returned"]
                 /\ lsnPc' = "completing"
                 /\ UNCHANGED lsnAbandons
            ELSE /\ lsnAbandons' = [lsnAbandons EXCEPT ![lsnCur] = @ + 1]
                 /\ lsnOutcome' = [lsnOutcome EXCEPT ![lsnCur] = "raised"]
                 /\ lsnPc' = "abandoning"
                 /\ UNCHANGED lsnCompletes
  /\ UNCHANGED <<lsnHandler, shutdown_event, task, cancelRequested, stopPc,
                 lsnBatch, lsnCur, backoff, lsnBody, lsnState, lsnProcessed>>
  /\ lsnTasks' = TasksAfter(lsnPc, lsnPc', lsnTasks)
  /\ UNCHANGED <<lsnStartRaised, lsnErrors>>
  /\ UNCHANGED notLsn

\* another handler returns normally: else-branch, complete_message
LsnHandlerReturns ==
  /\ lsnPc = "handling"
  /\ lsnHandler = "other"
  /\ ~cancelRequested
  /\ lsnCompletes' = [lsnCompletes EXCEPT ![lsnCur] = @ + 1]
  /\ lsnPc' = "completing"
  /\ UNCHANGED <<lsnHandler, shutdown_event, task, cancelRequested, stopPc,
                 lsnBatch, lsnCur, backoff, lsnBody, lsnState, lsnAbandons,
                 lsnProcessed, lsnThreads>>
  /\ lsnOutcome' = [lsnOutcome EXCEPT ![lsnCur] = "returned"]
  /\ UNCHANGED lsnJob
  /\ lsnTasks' = TasksAfter(lsnPc, lsnPc', lsnTasks)
  /\ UNCHANGED <<lsnStartRaised, lsnErrors>>
  /\ UNCHANGED notLsn

\* the except-branch calling complete_message instead of abandon_message
LsnHandlerRaisesCompletes ==
  /\ lsnPc = "handling"
  /\ lsnHandler = "other"
  /\ ~cancelRequested
  /\ lsnCompletes' = [lsnCompletes EXCEPT ![lsnCur] = @ + 1]
  /\ lsnPc' = "completing"
  /\ UNCHANGED <<lsnHandler, shutdown_event, task, cancelRequested, stopPc,
                 lsnBatch, lsnCur, backoff, lsnBody, lsnState, lsnAbandons,
                 lsnProcessed, lsnThreads>>
  /\ lsnOutcome' = [lsnOutcome EXCEPT ![lsnCur] = "raised"]
  /\ UNCHANGED lsnJob
  /\ lsnTasks' = TasksAfter(lsnPc, lsnPc', lsnTasks)
  /\ UNCHANGED <<lsnStartRaised, lsnErrors>>
  /\ UNCHANGED notLsn

\* another handler raises an Exception: except-branch, abandon_message
LsnHandlerRaises ==
  /\ lsnPc = "handling"
  /\ lsnHandler = "other"
  /\ ~cancelRequested
  /\ lsnAbandons' = [lsnAbandons EXCEPT ![lsnCur] = @ + 1]
  /\ lsnPc' = "abandoning"
  /\ UNCHANGED <<lsnHandler, shutdown_event, task, cancelRequested, stopPc,
                 lsnBatch, lsnCur, backoff, lsnBody, lsnState, lsnCompletes,
                 lsnProcessed, lsnThreads>>
  /\ lsnOutcome' = [lsnOutcome EXCEPT ![lsnCur] = "raised"]
  /\ UNCHANGED lsnJob
  /\ lsnTasks' = TasksAfter(lsnPc, lsnPc', lsnTasks)
  /\ UNCHANGED <<lsnStartRaised, lsnErrors>>
  /\ UNCHANGED notLsn

\* The task that renews the lock of message m while its handler is awaited.
\* Between _build_envelope and the disposition call _receive_once only awaits
\* the handler: it creates no task and never calls renew_message_lock.
LockRenewalTask(m) == "none"

\* complete_message / abandon_message returns: next message of the batch
LsnSettled ==
  /\ lsnPc \in {"completing", "abandoning"}
  /\ ~cancelRequested
  /\ LsnContinue(lsnBatch, lsnBody)
  /\ UNCHANGED <<lsnHandler, shutdown_event, task, cancelRequested, stopPc,
                 backoff, lsnBody, lsnState, lsnAbandons>>
  /\ UNCHANGED lsnJob
  /\ lsnTasks' = TasksAfter(lsnPc, lsnPc', lsnTasks)
  /\ UNCHANGED <<lsnStartRaised, lsnErrors>>
  /\ UNCHANGED notLsn

\* complete_message / abandon_message raises: the exception leaves
\* _receive_once (the rest of the batch is not handled), _run_loop logs it
\* and sleeps `backoff`
LsnSettleRaises ==
  /\ lsnPc \in {"completing", "abandoning"}
  /\ ~cancelRequested
  /\ lsnPc' = "backoff"
  /\ lsnBatch' = <<>>
  /\ lsnCur' = 0
  /\ UNCHANGED <<lsnHandler, shutdown_event, task, cancelRequested, stopPc,
                 backoff, lsnBody, lsnState, lsnCompletes, lsnAbandons,
                 lsnProcessed, lsnThreads>>
  /\ UNCHANGED <<lsnOutcome, lsnJob>>
  /\ lsnTasks' = TasksAfter(lsnPc, lsnPc', lsnTasks)
  /\ UNCHANGED <<lsnStartRaised, lsnErrors>>
  /\ UNCHANGED notLsn

\* stop(): self._shutdown_event.set(); if self._task is not None:
\* self._task.cancel(), then await self._task
LsnStop ==
  /\ stopPc = "idle"
  /\ shutdown_event' = TRUE
  /\ IF task = "none"
       THEN UNCHANGED <<cancelRequested, stopPc>>
       ELSE /\ cancelRequested' = (lsnPc # "ended")
            /\ stopPc' = "awaiting"
  /\ UNCHANGED <<lsnHandler, task, lsnPc, lsnBatch, lsnCur, backoff, lsnBody,
                 lsnState, lsnCompletes, lsnAbandons, lsnProcessed, lsnThreads>>
  /\ UNCHANGED <<lsnOutcome, lsnJob>>
  /\ lsnTasks' = TasksAfter(lsnPc, lsnPc', lsnTasks)
  /\ UNCHANGED <<lsnStartRaised, lsnErrors>>
  /\ UNCHANGED notLsn

\* the task is resumed with CancelledError at the await it is suspended at;
\* neither worker.py's nor _receive_once's `except Exception` catches it,
\* _run_loop re-raises it: the task ends
LsnTaskCancelled ==
  /\ cancelRequested
  /\ cancelRequested' = FALSE
  /\ lsnPc' = "ended"
  /\ lsnBatch' = <<>>
  /\ lsnCur' = 0
  /\ UNCHANGED <<lsnHandler, shutdown_event, task, stopPc, backoff, lsnBody,
                 lsnState, lsnCompletes, lsnAbandons, lsnProcessed, lsnThreads>>
  /\ UNCHANGED <<lsnOutcome, lsnJob>>
  /\ lsnTasks' = TasksAfter(lsnPc, lsnPc', lsnTasks)
  /\ UNCHANGED <<lsnStartRaised, lsnErrors>>
  /\ UNCHANGED notLsn

\* stop() that does not await the cancelled task
LsnStopReturnsWithoutAwait ==
  /\ stopPc = "awaiting"
  /\ task' = "none"
  /\ stopPc' = "idle"
  /\ UNCHANGED <<lsnHandler, shutdown_event, cancelRequested, lsnPc, lsnBatch,
                 lsnCur, backoff, lsnBody, lsnState, lsnCompletes, lsnAbandons,
                 lsnProcessed, lsnThreads, lsnOutcome, lsnJob, lsnTasks,
                 lsnStartRaised, lsnErrors>>
  /\ UNCHANGED notLsn
\* stop() after `await self._task`: self._task = None
LsnStopReturns ==
  /\ stopPc = "awaiting"
  /\ lsnPc = "ended"
  /\ task' = "none"
  /\ stopPc' = "idle"
  /\ UNCHANGED <<lsnHandler, shutdown_event, cancelRequested, lsnPc, lsnBatch,
                 lsnCur, backoff, lsnBody, lsnState, lsnCompletes, lsnAbandons,
                 lsnProcessed, lsnThreads>>
  /\ UNCHANGED <<lsnOutcome, lsnJob>>
  /\ lsnTasks' = TasksAfter(lsnPc, lsnPc', lsnTasks)
  /\ UNCHANGED <<lsnStartRaised, lsnErrors>>
  /\ UNCHANGED notLsn

LsnNext ==
  \/ LsnStart
  \/ LsnStartAgain
  \/ LsnReceive
  \/ LsnReceiveError
  \/ LsnBackoffDone
  \/ \E m \in LsnMsgs : LsnThreadEnds(m)
  \/ LsnWorkerReturns
  \/ LsnHandlerReturns
  \/ LsnHandlerRaises
  \/ LsnSettled
  \/ LsnSettleRaises
  \/ LsnStop
  \/ LsnTaskCancelled
  \/ LsnStopReturns

(***************************************************************************)
(* fetch_recording_bytes (app/modules/recording/service.py)                *)
(***************************************************************************)
AllCallers == {"a", "b"}

\* max_attempts of _try_platform_with_backoff and _try_direct_with_backoff
max_attempts == 4
\* transient statuses of both retry loops
TransientStatuses == {429, 500, 502, 503, 504, 408}
\* "RingCentral guidance: if 429 and no Retry-After, wait 30s or more"
Backoff429Seconds == 30
\* base = min(2 ** (attempt - 1), 16)
BackoffCapSeconds == 16
\* token reuse margin (expiry > now + 30) and caching margin (expires_in - 60)
TokenReuseMarginSeconds == 30
TokenCacheMarginSeconds == 60

\* a header that is absent
NoHeader == -1
\* _rc_cached_direct_token_expiry is None
NoExpiry == -1

Response(st, ra, rem, win) ==
  [status |-> st, retry_after |-> ra, remaining |-> rem, window |-> win]
NoResponse == Response(0, NoHeader, NoHeader, NoHeader)

\* what the upstream answers (header values in seconds)
Responses ==
  { Response(200, NoHeader, NoHeader, NoHeader),
    Response(200, NoHeader, 0, 2),
    Response(200, NoHeader, 1, 2),
    Response(401, NoHeader, NoHeader, NoHeader),
    Response(404, NoHeader, NoHeader, NoHeader),
    Response(503, NoHeader, NoHeader, NoHeader),
    Response(408, NoHeader, NoHeader, NoHeader),
    Response(503, 1, NoHeader, NoHeader),
    Response(429, 2, NoHeader, NoHeader),
    Response(429, NoHeader, NoHeader, NoHeader) }

\* expires_in reported by the credential exchange, in seconds
TtlSeconds == {70, 100}

\* random.uniform(0, 0.5): the jitters below half a second, in ticks
Jitters == 0..((TicksPerSecond - 1) \div 2)

RECURSIVE Pow2(_)
Pow2(n) == IF n <= 0 THEN 1 ELSE 2 * Pow2(n - 1)

\* the exponential base with the exponent off by one (2 ** (attempt - 2))
BackoffBaseSecondsLate(att) == Min2(Pow2(att - 1) \div 2, BackoffCapSeconds)
\* base = min(2 ** (attempt - 1), 16)
BackoffBaseSeconds(att) == Min2(Pow2(att - 1), BackoffCapSeconds)

\* a _retry_after_seconds that adds the jitter to every result
RetryAfterSecondsAlwaysJitter(r, att, jitter) ==
  IF r.retry_after >= 0
    THEN r.retry_after * TicksPerSecond + jitter
    ELSE IF r.status = 429
           THEN Backoff429Seconds * TicksPerSecond
           ELSE BackoffBaseSeconds(att) * TicksPerSecond + jitter
\* _retry_after_seconds(resp, attempt), in ticks; `jitter` is the draw of
\* random.uniform(0, 0.5); a header is honoured when float() accepts it
\* (retry_after >= 0 here), a missing or rejected one is passed over
RetryAfterSeconds(r, att, jitter) ==
  IF r.retry_after >= 0
    THEN r.retry_after * TicksPerSecond
    ELSE IF r.status = 429
           THEN Backoff429Seconds * TicksPerSecond
           ELSE BackoffBaseSeconds(att) * TicksPerSecond + jitter

fConst == <<strict, callers>>
fTok == <<rc_token_lock, rc_cached_direct_token, rc_cached_direct_token_expiry,
          tokensIssued, force_refresh, token>>
fLoop == <<path, attempt, relogin_done>>
fHist == <<sent, refreshes, consec401, sawClientError, shape, slept,
           backoffUntil, pauseUntil, tokHist>>

\* _rc_next_allowed_at when a call starts: 0.0 in a fresh process, or the
\* deadline an earlier call of the process left (here a courtesy pause of a
\* 2 s window, which strict mode records without sleeping)
LeftoverDeadlines == {0, 2 * TicksPerSecond}

FetchInit ==
  /\ strict \in BOOLEAN
  /\ callers \in {AllCallers, {"a"}}
  /\ now = 0
  /\ errorsLeft = IF callers = AllCallers THEN MaxConcurrentErrors
                                         ELSE 2 * max_attempts
  /\ rc_next_allowed_at \in LeftoverDeadlines
  /\ rc_token_lock = "free"
  /\ rc_cached_direct_token = 0
  /\ rc_cached_direct_token_expiry = -1
  /\ tokensIssued = 0
  /\ fpc = [c \in AllCallers |-> "idle"]
  /\ path = [c \in AllCallers |-> "sdk"]
  /\ attempt = [c \in AllCallers |-> 1]
  /\ relogin_done = [c \in AllCallers |-> FALSE]
  /\ force_refresh = [c \in AllCallers |-> FALSE]
  /\ token = [c \in AllCallers |-> 0]
  /\ tok_now = [c \in AllCallers |-> 0]
  /\ resp = [c \in AllCallers |-> NoResponse]
  /\ wait_s = [c \in AllCallers |-> 0]
  /\ seen = [c \in AllCallers |-> 0]
  /\ wake = [c \in AllCallers |-> 0]
  /\ retry_after = [c \in AllCallers |-> 0]
  /\ sent = [c \in AllCallers |-> [sdk |-> 0, direct |-> 0]]
  /\ refreshes = [c \in AllCallers |-> 0]
  /\ consec401 = [c \in AllCallers |-> 0]
  /\ sawClientError = [c \in AllCallers |-> FALSE]
  /\ shape = [c \in AllCallers |-> "plain"]
  /\ slept = [c \in AllCallers |-> 0]
  /\ backoffUntil = [c \in AllCallers |-> 0]
  /\ pauseUntil = [c \in AllCallers |-> 0]
  /\ tokHist = [c \in AllCallers |-> [peers |-> {}, exchanges |-> 0, ended |-> "no", got |-> 0]]

Sleeping == {"presleep", "backoff", "pausesleep"}

\* time passes while a caller sleeps (the steps between two sleeps take no
\* time); a sleep ends when its time has come
Tick ==
  /\ now < MaxTime
  /\ \E c \in callers : fpc[c] \in Sleeping
  /\ \A c \in callers : fpc[c] \in Sleeping => wake[c] > now
  /\ now' = now + 1
  /\ UNCHANGED <<fConst, errorsLeft, fTok, tok_now, fLoop, fHist, rc_next_allowed_at, fpc, resp,
                 wait_s, seen, wake, retry_after>>
  /\ UNCHANGED notFetch

\* fetch_recording_bytes is called: platform = get_platform(), then
\* _try_platform_with_backoff() starts its loop
FetchStart(c) ==
  /\ c \in callers
  /\ fpc[c] = "idle"
  /\ fpc' = [fpc EXCEPT ![c] = "wait"]
  /\ UNCHANGED <<fConst, errorsLeft, fTok, tok_now, fLoop, fHist, now, rc_next_allowed_at, resp,
                 wait_s, seen, wake, retry_after>>
  /\ UNCHANGED notFetch

\* the try block of _maybe_wait_before_request: "raise" is the
\* RingCentralRateLimitActive(delay) of line 73, "sleep" the time.sleep(delay)
MaybeWaitTryBlock(isStrict, t, allowedAt) ==
  IF t < allowedAt /\ Max2(0, allowedAt - t) > 0
    THEN IF isStrict THEN "raise" ELSE "sleep"
    ELSE "proceed"

\* _maybe_wait_before_request as its caller sees it: the try block is closed
\* by `except Exception: return`, and RingCentralRateLimitActive is an
\* Exception, so the raise ends the function normally
MaybeWaitBeforeRequest(isStrict, t, allowedAt) ==
  LET inTry == MaybeWaitTryBlock(isStrict, t, allowedAt)
  IN IF inTry = "raise" THEN "proceed" ELSE inTry

\* _platform_get_once / _direct_get_with_token: _maybe_wait_before_request()
MaybeWait(c) ==
  /\ fpc[c] = "wait"
  /\ LET outcome == MaybeWaitBeforeRequest(strict, now, rc_next_allowed_at)
         delay == Max2(0, rc_next_allowed_at - now)
     IN IF outcome = "sleep"
          THEN /\ fpc' = [fpc EXCEPT ![c] = "presleep"]
               /\ wait_s' = [wait_s EXCEPT ![c] = delay]
               /\ wake' = [wake EXCEPT ![c] = now + delay]
          ELSE /\ fpc' = [fpc EXCEPT ![c] = "send"]
               /\ UNCHANGED <<wait_s, wake>>
  /\ UNCHANGED <<fConst, errorsLeft, fTok, tok_now, fLoop, fHist, now, rc_next_allowed_at, resp,
                 seen, retry_after>>
  /\ UNCHANGED notFetch

\* time.sleep(delay) of _maybe_wait_before_request returns
PreSleepDone(c) ==
  /\ fpc[c] = "presleep"
  /\ now >= wake[c]
  /\ fpc' = [fpc EXCEPT ![c] = "send"]
  /\ wait_s' = [wait_s EXCEPT ![c] = 0]
  /\ wake' = [wake EXCEPT ![c] = 0]
  /\ UNCHANGED <<fConst, errorsLeft, fTok, tok_now, fLoop, fHist, now, rc_next_allowed_at, resp,
                 seen, retry_after>>
  /\ UNCHANGED notFetch

\* platform.get(content_url) / requests.get(content_url, ...): the request
\* goes out
Send(c) ==
  /\ fpc[c] = "send"
  /\ fpc' = [fpc EXCEPT ![c] = "inflight"]
  /\ sent' = [sent EXCEPT ![c][path[c]] = @ + 1]
  /\ UNCHANGED <<fConst, errorsLeft, fTok, tok_now, fLoop, refreshes, consec401, sawClientError,
                 shape, slept, backoffUntil, pauseUntil, tokHist, now,
                 rc_next_allowed_at, resp, wait_s, seen, wake, retry_after>>
  /\ UNCHANGED notFetch

Plain5xx(r) == r.status \in {500, 502, 503, 504, 408} /\ r.retry_after = NoHeader
ClientError(r) == r.status >= 400 /\ r.status < 500 /\ r.status \notin {401, 408, 429}

\* the response arrives: last_resp = ..., status = last_resp.status_code
Receive(c) ==
  /\ fpc[c] = "inflight"
  /\ \E r \in Responses :
       /\ r.status >= 400 => errorsLeft > 0
       /\ errorsLeft' = IF r.status >= 400 THEN errorsLeft - 1 ELSE errorsLeft
       /\ resp' = [resp EXCEPT ![c] = r]
       /\ consec401' = [consec401 EXCEPT ![c] = IF r.status = 401 THEN @ + 1 ELSE 0]
       /\ sawClientError' = [sawClientError EXCEPT ![c] = @ \/ ClientError(r)]
       /\ shape' = [shape EXCEPT ![c] =
                      IF @ = "plain" /\ Plain5xx(r) THEN "plain"
                      ELSE IF @ = "plain" /\ r.status = 200 THEN "plain200"
                      ELSE "other"]
  /\ fpc' = [fpc EXCEPT ![c] = "got"]
  /\ UNCHANGED <<fConst, fTok, tok_now, fLoop, sent, refreshes, slept, backoffUntil,
                 pauseUntil, tokHist, now, rc_next_allowed_at, wait_s, seen, wake,
                 retry_after>>
  /\ UNCHANGED notFetch

\* the loop running one iteration more than max_attempts (range(1, max_attempts + 2))
NextIterationOneMore(c) ==
  IF attempt[c] < max_attempts + 1
    THEN /\ attempt' = [attempt EXCEPT ![c] = @ + 1]
         /\ fpc' = [fpc EXCEPT ![c] = "wait"]
         /\ UNCHANGED path
    ELSE IF path[c] = "sdk"
      THEN /\ path' = [path EXCEPT ![c] = "direct"]
           /\ attempt' = [attempt EXCEPT ![c] = 1]
           /\ fpc' = [fpc EXCEPT ![c] = "tok"]
      ELSE /\ fpc' = [fpc EXCEPT ![c] = "raised_http"]
           /\ UNCHANGED <<path, attempt>>
\* `continue` / falling out of the loop body: the next iteration of
\* `for attempt in range(1, max_attempts + 1)`, or, after the last one,
\* `return last_resp`.  The SDK path's result goes to the fallback test of
\* line 265 (status >= 400: the direct path starts with its token), the
\* direct path's result to raw.raise_for_status() of line 270.
NextIteration(c) ==
  IF attempt[c] < max_attempts
    THEN /\ attempt' = [attempt EXCEPT ![c] = @ + 1]
         /\ fpc' = [fpc EXCEPT ![c] = "wait"]
         /\ UNCHANGED path
    ELSE IF path[c] = "sdk"
      THEN /\ path' = [path EXCEPT ![c] = "direct"]
           /\ attempt' = [attempt EXCEPT ![c] = 1]
           /\ fpc' = [fpc EXCEPT ![c] = "tok"]
      ELSE /\ fpc' = [fpc EXCEPT ![c] = "raised_http"]
           /\ UNCHANGED <<path, attempt>>

\* `break` of the SDK loop (return last_resp with status >= 400): fallback
SdkBreak(c) ==
  /\ path' = [path EXCEPT ![c] = "direct"]
  /\ attempt' = [attempt EXCEPT ![c] = 1]
  /\ fpc' = [fpc EXCEPT ![c] = "tok"]

\* the SDK loop going on to its next attempt after a status it gives up on
SdkOtherErrorRetries(c) == NextIteration(c)
\* SDK path, raise_for_status() raised: except Exception: break
SdkOtherError(c) == SdkBreak(c)

\* lines 190-198: 401 on the SDK path and no re-login yet: platform.login,
\* then continue; a failing login breaks out of the loop
SdkUnauthorized(c) ==
  /\ fpc[c] = "got"
  /\ path[c] = "sdk"
  /\ resp[c].status = 401
  /\ ~relogin_done[c]
  /\ refreshes' = [refreshes EXCEPT ![c] = @ + 1]
  /\ \E loginOk \in BOOLEAN :
       IF loginOk
         THEN /\ relogin_done' = [relogin_done EXCEPT ![c] = TRUE]
              /\ NextIteration(c)
         ELSE /\ UNCHANGED relogin_done
              /\ SdkBreak(c)
  /\ UNCHANGED <<fConst, errorsLeft, rc_token_lock, rc_cached_direct_token,
                 rc_cached_direct_token_expiry, tokensIssued, token, tok_now, force_refresh, sent,
                 consec401, sawClientError, shape, slept, backoffUntil,
                 pauseUntil, tokHist, now, rc_next_allowed_at, wait_s, seen, wake,
                 retry_after>>
  /\ resp' = [resp EXCEPT ![c] = NoResponse]
  /\ UNCHANGED notFetch

\* lines 199-211 and 239-250: a transient status; wait_s is computed and
\* _rc_next_allowed_at is read for max(_rc_next_allowed_at, ...)
Transient(c) ==
  /\ fpc[c] = "got"
  /\ resp[c].status \in TransientStatuses
  /\ \E jitter \in Jitters :
       wait_s' = [wait_s EXCEPT ![c] = RetryAfterSeconds(resp[c], attempt[c], jitter)]
  /\ seen' = [seen EXCEPT ![c] = rc_next_allowed_at]
  /\ fpc' = [fpc EXCEPT ![c] = "record"]
  /\ UNCHANGED <<fConst, errorsLeft, fTok, tok_now, fLoop, fHist, now, rc_next_allowed_at,
                 resp, wake, retry_after>>
  /\ UNCHANGED notFetch

\* the store taking the smaller of the two deadlines (min instead of max)
SharedBackoffMin(current, t, w) == Min2(current, t + w)
\* _rc_next_allowed_at = max(_rc_next_allowed_at, time.time() + wait_s)
SharedBackoff(current, t, w) == Max2(current, t + w)

\* the store followed by the sleep in strict mode as well
RecordBackoffAlwaysSleeps(c) ==
  /\ fpc[c] = "record"
  /\ rc_next_allowed_at' = SharedBackoff(seen[c], now, wait_s[c])
  /\ backoffUntil' = [backoffUntil EXCEPT ![c] = now + wait_s[c]]
  /\ fpc' = [fpc EXCEPT ![c] = "backoff"]
  /\ wake' = [wake EXCEPT ![c] = now + wait_s[c]]
  /\ seen' = [seen EXCEPT ![c] = 0]
  /\ resp' = [resp EXCEPT ![c] = NoResponse]
  /\ UNCHANGED <<fConst, errorsLeft, fTok, tok_now, fLoop, sent, refreshes, consec401,
                 sawClientError, shape, slept, pauseUntil, tokHist, now, wait_s,
                 retry_after>>
  /\ UNCHANGED notFetch
\* lines 211-215 and 250-254: the store of _rc_next_allowed_at, then strict
\* mode raises RingCentralRateLimitActive(wait_s), lenient mode sleeps
RecordBackoff(c) ==
  /\ fpc[c] = "record"
  /\ rc_next_allowed_at' = SharedBackoff(seen[c], now, wait_s[c])
  /\ backoffUntil' = [backoffUntil EXCEPT ![c] = now + wait_s[c]]
  /\ IF strict
       THEN /\ fpc' = [fpc EXCEPT ![c] = "raised_rl"]
            /\ retry_after' = [retry_after EXCEPT ![c] = wait_s[c]]
            /\ UNCHANGED wake
       ELSE /\ fpc' = [fpc EXCEPT ![c] = "backoff"]
            /\ wake' = [wake EXCEPT ![c] = now + wait_s[c]]
            /\ UNCHANGED retry_after
  /\ seen' = [seen EXCEPT ![c] = 0]
  /\ resp' = [resp EXCEPT ![c] = NoResponse]
  /\ UNCHANGED <<fConst, errorsLeft, fTok, tok_now, fLoop, sent, refreshes, consec401,
                 sawClientError, shape, slept, pauseUntil, tokHist, now, wait_s>>
  /\ UNCHANGED notFetch

\* time.sleep(wait_s) returns; continue
BackoffDone(c) ==
  /\ fpc[c] = "backoff"
  /\ now >= wake[c]
  /\ slept' = [slept EXCEPT ![c] = @ + wait_s[c]]
  /\ wait_s' = [wait_s EXCEPT ![c] = 0]
  /\ wake' = [wake EXCEPT ![c] = 0]
  /\ backoffUntil' = [backoffUntil EXCEPT ![c] = 0]
  /\ NextIteration(c)
  /\ UNCHANGED <<fConst, errorsLeft, rc_token_lock, rc_cached_direct_token,
                 rc_cached_direct_token_expiry, tokensIssued, token, tok_now,
                 force_refresh, relogin_done, sent, refreshes, consec401,
                 sawClientError, shape, pauseUntil, tokHist, now, rc_next_allowed_at,
                 resp, seen, retry_after>>
  /\ UNCHANGED notFetch

\* lines 216-221: any other status on the SDK path (a 401 after the
\* re-login included): raise_for_status(); return last_resp, or break
SdkOther(c) ==
  /\ fpc[c] = "got"
  /\ path[c] = "sdk"
  /\ resp[c].status \notin TransientStatuses
  /\ ~(resp[c].status = 401 /\ ~relogin_done[c])
  /\ IF resp[c].status < 400
       THEN /\ fpc' = [fpc EXCEPT ![c] = "pause"]
            /\ UNCHANGED <<path, attempt, resp>>
       ELSE /\ SdkOtherError(c)
            /\ resp' = [resp EXCEPT ![c] = NoResponse]
  /\ UNCHANGED <<fConst, errorsLeft, rc_token_lock, rc_cached_direct_token,
                 rc_cached_direct_token_expiry, tokensIssued, token, tok_now, force_refresh,
                 relogin_done, fHist, now, rc_next_allowed_at, wait_s,
                 seen, wake, retry_after>>
  /\ UNCHANGED notFetch

\* lines 233-238: 401 on the direct path:
\* token = _get_or_refresh_direct_token(force_refresh=True)
DirectUnauthorized(c) ==
  /\ fpc[c] = "got"
  /\ path[c] = "direct"
  /\ resp[c].status = 401
  /\ force_refresh' = [force_refresh EXCEPT ![c] = TRUE]
  /\ refreshes' = [refreshes EXCEPT ![c] = @ + 1]
  /\ fpc' = [fpc EXCEPT ![c] = "tok"]
  /\ UNCHANGED <<fConst, errorsLeft, rc_token_lock, rc_cached_direct_token,
                 rc_cached_direct_token_expiry, tokensIssued, token, tok_now,
                 path, attempt, relogin_done, sent, consec401, sawClientError,
                 shape, slept, backoffUntil, pauseUntil, tokHist, now,
                 rc_next_allowed_at, wait_s, seen, wake, retry_after>>
  /\ resp' = [resp EXCEPT ![c] = NoResponse]
  /\ UNCHANGED notFetch

\* lines 255-260: any other status on the direct path: raise_for_status();
\* return last_resp, or `except Exception: pass` and the loop goes on
DirectOther(c) ==
  /\ fpc[c] = "got"
  /\ path[c] = "direct"
  /\ resp[c].status \notin TransientStatuses
  /\ resp[c].status # 401
  /\ IF resp[c].status < 400
       THEN /\ fpc' = [fpc EXCEPT ![c] = "pause"]
            /\ UNCHANGED <<path, attempt, resp>>
       ELSE /\ NextIteration(c)
            /\ resp' = [resp EXCEPT ![c] = NoResponse]
  /\ UNCHANGED <<fConst, errorsLeft, rc_token_lock, rc_cached_direct_token,
                 rc_cached_direct_token_expiry, tokensIssued, token, tok_now, force_refresh,
                 relogin_done, fHist, now, rc_next_allowed_at, wait_s,
                 seen, wake, retry_after>>
  /\ UNCHANGED notFetch

\* the cache check without the 30 s margin (expiry > now)
CachedTokenUsableUntilExpiry(force, cached, expiry, t) ==
  /\ ~force
  /\ cached # 0
  /\ (expiry = NoExpiry \/ expiry > t)
\* if not force_refresh and _rc_cached_direct_token:
\*     if expiry is None or expiry > now + 30: return the cached token
CachedTokenUsable(force, cached, expiry, t) ==
  /\ ~force
  /\ cached # 0
  /\ (expiry = NoExpiry \/ expiry > t + TokenReuseMarginSeconds * TicksPerSecond)

\* _rc_cached_direct_token_expiry = (now + float(expires_in) - 60) if expires_in else None
TokenExpiry(t, expires_in) ==
  IF expires_in > 0
    THEN t + expires_in * TicksPerSecond - TokenCacheMarginSeconds * TicksPerSecond
    ELSE NoExpiry

\* _get_or_refresh_direct_token returned `tok` to _try_direct_with_backoff:
\* before the loop `if not token: return None` (RuntimeError of line 269),
\* in the 401 branch `if not token: return last_resp` (raise_for_status of
\* line 270), else the loop starts or continues
TokenReturned(c, tok) ==
  /\ token' = [token EXCEPT ![c] = tok]
  /\ force_refresh' = [force_refresh EXCEPT ![c] = FALSE]
  /\ IF force_refresh[c]
       THEN IF tok = 0
              THEN /\ fpc' = [fpc EXCEPT ![c] = "raised_http"]
                   /\ UNCHANGED <<path, attempt>>
              ELSE NextIteration(c)
       ELSE /\ fpc' = [fpc EXCEPT ![c] = IF tok = 0 THEN "raised_rt" ELSE "wait"]
            /\ UNCHANGED <<path, attempt>>

\* history of the calls without force: the callers that are between the
\* first check of the cache and the return of their own call
InsideTokenCall == {d \in callers : fpc[d] \in {"tok_lock", "tok_exchange"} /\ ~force_refresh[d]}

\* caller c found the cache unusable at line 158 and goes on to the lock:
\* it and the callers already inside are in the call at the same time
TokHistJoined(c) ==
  IF force_refresh[c]
    THEN tokHist
    ELSE [d \in AllCallers |->
            IF d = c THEN [tokHist[d] EXCEPT !.peers = InsideTokenCall \ {c}]
            ELSE IF d \in InsideTokenCall
                   THEN [tokHist[d] EXCEPT !.peers = @ \cup {c}]
                   ELSE tokHist[d]]

\* the call of caller c returns the cached token `tok`
TokHistReturned(c, tok) ==
  IF force_refresh[c]
    THEN tokHist
    ELSE [tokHist EXCEPT ![c].ended = "returned", ![c].got = tok]

\* the call of caller c ends after an exchange of its own
TokHistExchanged(c, how, tok) ==
  IF force_refresh[c]
    THEN tokHist
    ELSE [tokHist EXCEPT ![c].exchanges = @ + 1, ![c].ended = how, ![c].got = tok]

\* lines 157-160: the check of the cache before the lock is taken
TokenFastPath(c) ==
  /\ fpc[c] = "tok"
  /\ IF CachedTokenUsable(force_refresh[c], rc_cached_direct_token,
                          rc_cached_direct_token_expiry, now)
       THEN /\ TokenReturned(c, rc_cached_direct_token)
            /\ tokHist' = TokHistReturned(c, rc_cached_direct_token)
       ELSE /\ fpc' = [fpc EXCEPT ![c] = "tok_lock"]
            /\ tokHist' = TokHistJoined(c)
            /\ UNCHANGED <<path, attempt, force_refresh, token>>
  /\ UNCHANGED <<fConst, errorsLeft, rc_token_lock, rc_cached_direct_token,
                 rc_cached_direct_token_expiry, tokensIssued, tok_now,
                 relogin_done, sent, refreshes, consec401, sawClientError,
                 shape, slept, backoffUntil, pauseUntil,
                 now, rc_next_allowed_at, resp, wait_s, seen, wake, retry_after>>
  /\ UNCHANGED notFetch

\* the lock taken without the second look at the cache
TokenLockedNoRecheck(c) ==
  /\ fpc[c] = "tok_lock"
  /\ rc_token_lock = "free"
  /\ rc_token_lock' = c
  /\ tok_now' = [tok_now EXCEPT ![c] = now]
  /\ fpc' = [fpc EXCEPT ![c] = "tok_exchange"]
  /\ UNCHANGED <<path, attempt, force_refresh, token, tokHist>>
  /\ UNCHANGED <<fConst, errorsLeft, rc_cached_direct_token, rc_cached_direct_token_expiry,
                 tokensIssued, relogin_done, sent, refreshes, consec401, sawClientError,
                 shape, slept, backoffUntil, pauseUntil,
                 now, rc_next_allowed_at, resp, wait_s, seen, wake, retry_after>>
  /\ UNCHANGED notFetch
\* lines 161-165: with _rc_token_lock: now = time.time(), the second check
TokenLocked(c) ==
  /\ fpc[c] = "tok_lock"
  /\ rc_token_lock = "free"
  /\ IF CachedTokenUsable(force_refresh[c], rc_cached_direct_token,
                          rc_cached_direct_token_expiry, now)
       THEN /\ TokenReturned(c, rc_cached_direct_token)
            /\ tokHist' = TokHistReturned(c, rc_cached_direct_token)
            /\ UNCHANGED <<rc_token_lock, tok_now>>
       ELSE /\ rc_token_lock' = c
            /\ tok_now' = [tok_now EXCEPT ![c] = now]
            /\ fpc' = [fpc EXCEPT ![c] = "tok_exchange"]
            /\ UNCHANGED <<path, attempt, force_refresh, token, tokHist>>
  /\ UNCHANGED <<fConst, errorsLeft, rc_cached_direct_token, rc_cached_direct_token_expiry,
                 tokensIssued, relogin_done, sent, refreshes, consec401, sawClientError,
                 shape, slept, backoffUntil, pauseUntil,
                 now, rc_next_allowed_at, resp, wait_s, seen, wake, retry_after>>
  /\ UNCHANGED notFetch

\* lines 166-182: the credential exchange under the lock.  "meta":
\* get_ringcentral_access_token_with_meta returns (token, expires_in);
\* "legacy": it raises and get_ringcentral_access_token returns a token;
\* "empty": the token returned is empty; "fail": the legacy helper raises
\* too and the exception leaves fetch_recording_bytes
TokenExchange(c) ==
  /\ fpc[c] = "tok_exchange"
  /\ rc_token_lock = c
  /\ rc_token_lock' = "free"
  /\ \E outcome \in {"meta", "legacy", "empty", "fail"}, ttl \in TtlSeconds :
       CASE outcome = "fail" ->
              /\ fpc' = [fpc EXCEPT ![c] = "raised_tok"]
              /\ tokHist' = TokHistExchanged(c, "raised", 0)
              /\ UNCHANGED <<rc_cached_direct_token, rc_cached_direct_token_expiry,
                             tokensIssued, path, attempt, force_refresh, token>>
         [] outcome = "empty" ->
              /\ rc_cached_direct_token' = 0
              /\ rc_cached_direct_token_expiry' = NoExpiry
              /\ UNCHANGED tokensIssued
              /\ tokHist' = TokHistExchanged(c, "returned", 0)
              /\ TokenReturned(c, 0)
         [] OTHER ->
              /\ tokensIssued' = tokensIssued + 1
              /\ rc_cached_direct_token' = tokensIssued + 1
              /\ rc_cached_direct_token_expiry' =
                   TokenExpiry(tok_now[c], IF outcome = "meta" THEN ttl ELSE 0)
              /\ tokHist' = TokHistExchanged(c, "returned", tokensIssued + 1)
              /\ TokenReturned(c, tokensIssued + 1)
  /\ tok_now' = [tok_now EXCEPT ![c] = 0]
  /\ UNCHANGED <<fConst, errorsLeft, relogin_done, sent, refreshes, consec401, sawClientError,
                 shape, slept, backoffUntil, pauseUntil,
                 now, rc_next_allowed_at, resp, wait_s, seen, wake, retry_after>>
  /\ UNCHANGED notFetch

\* _maybe_pause_on_low_remaining: does the response ask for the courtesy
\* pause (remaining_i <= 0 and window_s > 0)
RateWindowExhausted(r) ==
  /\ r.remaining # NoHeader
  /\ r.window # NoHeader
  /\ r.remaining <= 0
  /\ r.window > 0

\* _rc_next_allowed_at = time.time() + window_s
PauseDeadline(current, t, w) == t + w

\* line 274: _maybe_pause_on_low_remaining(raw) after a successful response
CourtesyPause(c) ==
  /\ fpc[c] = "pause"
  /\ IF RateWindowExhausted(resp[c])
       THEN LET w == resp[c].window * TicksPerSecond
            IN /\ rc_next_allowed_at' = PauseDeadline(rc_next_allowed_at, now, w)
               /\ pauseUntil' = [pauseUntil EXCEPT ![c] = now + w]
               /\ IF strict
                    THEN /\ fpc' = [fpc EXCEPT ![c] = "returned"]
                         /\ UNCHANGED <<wake, wait_s>>
                    ELSE /\ fpc' = [fpc EXCEPT ![c] = "pausesleep"]
                         /\ wait_s' = [wait_s EXCEPT ![c] = w]
                         /\ wake' = [wake EXCEPT ![c] = now + w]
       ELSE /\ fpc' = [fpc EXCEPT ![c] = "returned"]
            /\ UNCHANGED <<rc_next_allowed_at, pauseUntil, wake, wait_s>>
  /\ resp' = [resp EXCEPT ![c] = NoResponse]
  /\ UNCHANGED <<fConst, errorsLeft, fTok, tok_now, fLoop, sent, refreshes, consec401,
                 sawClientError, shape, slept, backoffUntil, tokHist, now, seen,
                 retry_after>>
  /\ UNCHANGED notFetch

\* time.sleep(window_s) returns; fetch_recording_bytes returns the bytes
PauseDone(c) ==
  /\ fpc[c] = "pausesleep"
  /\ now >= wake[c]
  /\ fpc' = [fpc EXCEPT ![c] = "returned"]
  /\ wait_s' = [wait_s EXCEPT ![c] = 0]
  /\ wake' = [wake EXCEPT ![c] = 0]
  /\ pauseUntil' = [pauseUntil EXCEPT ![c] = 0]
  /\ UNCHANGED <<fConst, errorsLeft, fTok, tok_now, fLoop, sent, refreshes, consec401,
                 sawClientError, shape, slept, backoffUntil, tokHist, now,
                 rc_next_allowed_at, resp, seen, retry_after>>
  /\ UNCHANGED notFetch

FetchNext ==
  \/ Tick
  \/ \E c \in AllCallers :
       \/ FetchStart(c)
       \/ MaybeWait(c)
       \/ PreSleepDone(c)
       \/ Send(c)
       \/ Receive(c)
       \/ SdkUnauthorized(c)
       \/ Transient(c)
       \/ RecordBackoff(c)
       \/ BackoffDone(c)
       \/ SdkOther(c)
       \/ DirectUnauthorized(c)
       \/ DirectOther(c)
       \/ TokenFastPath(c)
       \/ TokenLocked(c)
       \/ TokenExchange(c)
       \/ CourtesyPause(c)
       \/ PauseDone(c)

(***************************************************************************)
(* WhisperRateLimiter (app/services/azure/openai/whisper_rateLimiter.py)   *)
(* Time is counted in half seconds, the unit of the 0.5 s buffer.          *)
(***************************************************************************)
LimiterTasks == {"t1", "t2", "t3"}

\* `time_since_oldest < 60`, in half seconds
WindowTicks == 120
\* the 0.5 s added to the wait, in half seconds
BufferTicks == 1

WrlInit ==
  /\ requests_per_minute \in 1..MaxRequestsPerMinute
  /\ request_times = <<>>
  /\ lock = "none"
  /\ lockWaiters = <<>>
  /\ wrlPc = [c \in LimiterTasks |-> "idle"]
  /\ wrlWake = 0
  /\ wrlNow = 0
  /\ wrlCalls = 0
  /\ wrlReturns = <<>>
  /\ wrlResetCalled = FALSE

\* deque(maxlen=n).append(t): a full deque drops its oldest element
DequeAppend(dq, n, t) ==
  IF Len(dq) >= n THEN Append(Tail(dq), t) ELSE Append(dq, t)

\* a wait that ends before the oldest request is 60 s old
WaitTicksShort(since) == WindowTicks - since - BufferTicks
\* wait_time = 60 - time_since_oldest + 0.5
WaitTicks(since) == WindowTicks - since + BufferTicks

\* acquire() returns to task c at time t: the lock is released on the way out
AcquireReturns(c, t) ==
  /\ lock' = "none"
  /\ wrlPc' = [wrlPc EXCEPT ![c] = "idle"]
  /\ wrlReturns' = IF wrlResetCalled THEN wrlReturns ELSE Append(wrlReturns, t)

\* the body of `async with self.lock` up to its first suspension, run by
\* task c when it has the lock
AcquireBody(c) ==
  IF Len(request_times) < requests_per_minute
    THEN /\ request_times' = Append(request_times, wrlNow)
         /\ AcquireReturns(c, wrlNow)
         /\ UNCHANGED wrlWake
    ELSE LET time_since_oldest == wrlNow - Head(request_times)
         IN IF time_since_oldest < WindowTicks
              THEN /\ lock' = c
                   /\ wrlPc' = [wrlPc EXCEPT ![c] = "sleeping"]
                   /\ wrlWake' = wrlNow + WaitTicks(time_since_oldest)
                   /\ UNCHANGED <<request_times, wrlReturns>>
              ELSE /\ request_times' =
                        DequeAppend(request_times, requests_per_minute, wrlNow)
                   /\ AcquireReturns(c, wrlNow)
                   /\ UNCHANGED wrlWake

\* task c calls acquire(): it takes the free lock when no task waits for it
\* and runs the body, else it joins the waiters of the lock
WrlAcquire(c) ==
  /\ wrlPc[c] = "idle"
  /\ wrlCalls < MaxAcquireCalls
  /\ wrlCalls' = wrlCalls + 1
  /\ IF lock = "none" /\ lockWaiters = <<>>
       THEN /\ AcquireBody(c)
            /\ UNCHANGED lockWaiters
       ELSE /\ lockWaiters' = Append(lockWaiters, c)
            /\ wrlPc' = [wrlPc EXCEPT ![c] = "waiting"]
            /\ UNCHANGED <<request_times, lock, wrlWake, wrlReturns>>
  /\ UNCHANGED <<requests_per_minute, wrlNow, wrlResetCalled>>
  /\ UNCHANGED notWrl

\* the released lock wakes its first waiter, which runs the body
WrlResume(c) ==
  /\ lock = "none"
  /\ lockWaiters # <<>>
  /\ Head(lockWaiters) = c
  /\ lockWaiters' = Tail(lockWaiters)
  /\ AcquireBody(c)
  /\ UNCHANGED <<requests_per_minute, wrlNow, wrlCalls, wrlResetCalled>>
  /\ UNCHANGED notWrl

\* asyncio.sleep(wait_time) returns, at its deadline or later; the task
\* records time.time() and returns.  While the holder sleeps no other step
\* reads the clock, so the clock is advanced by the wake-up.
WrlSleepEnds(c) ==
  /\ wrlPc[c] = "sleeping"
  /\ \E late \in {0, 1} :
       /\ wrlNow' = Max2(wrlNow, wrlWake) + late
       /\ request_times' =
            DequeAppend(request_times, requests_per_minute, wrlNow')
       /\ AcquireReturns(c, wrlNow')
  /\ UNCHANGED <<requests_per_minute, lockWaiters, wrlWake, wrlCalls,
                 wrlResetCalled>>
  /\ UNCHANGED notWrl

\* half a second passes while no task sleeps in acquire(); the clock is not
\* read before the first call, whose time is taken as 0
WrlTick ==
  /\ \A c \in LimiterTasks : wrlPc[c] # "sleeping"
  /\ wrlCalls > 0
  /\ wrlNow < MaxLimiterTime
  /\ wrlNow' = wrlNow + 1
  /\ UNCHANGED <<requests_per_minute, request_times, lock, lockWaiters, wrlPc,
                 wrlWake, wrlCalls, wrlReturns, wrlResetCalled>>
  /\ UNCHANGED notWrl

\* a reset() that also replaces the lock, forgetting the tasks that wait for it
WrlResetDropsWaiters ==
  /\ request_times' = <<>>
  /\ wrlResetCalled' = TRUE
  /\ wrlReturns' = <<>>
  /\ lockWaiters' = <<>>
  /\ UNCHANGED <<requests_per_minute, lock, wrlPc, wrlWake, wrlNow, wrlCalls>>
  /\ UNCHANGED notWrl
\* reset(): self.request_times.clear(), without taking the lock
WrlReset ==
  /\ request_times' = <<>>
  /\ wrlResetCalled' = TRUE
  /\ wrlReturns' = <<>>
  /\ UNCHANGED <<requests_per_minute, lock, lockWaiters, wrlPc, wrlWake,
                 wrlNow, wrlCalls>>
  /\ UNCHANGED notWrl

WrlNext ==
  \/ WrlTick
  \/ WrlReset
  \/ \E c \in LimiterTasks :
       \/ WrlAcquire(c)
       \/ WrlResume(c)
       \/ WrlSleepEnds(c)

(***************************************************************************)
(* The HTTP endpoints in front of the recording fetch                      *)
(* (app/modules/asr/routes.py, app/modules/recording/routes.py)            *)
(***************************************************************************)
Endpoints == {"transcribe_url", "transcribe_id", "download_recording"}

\* what the service call of the endpoint does: it returns, or it raises the
\* rate-limit signal, an HTTPException or another Exception
ServiceOutcomes == {"ok", "RingCentralRateLimitActive", "HTTPException",
                    "Exception"}
\* the status of an HTTPException raised below the endpoint
InnerStatuses == {404, 422}

HttpInputs ==
  [endpoint : Endpoints, raised : ServiceOutcomes,
   retry_after : 0..MaxRetryAfterTicks, inner : InnerStatuses,
   called : {FALSE}, status : {0}, header : {NoHeader}]

\* retry_after and inner only matter for the outcome that carries them
HttpInit ==
  /\ http \in HttpInputs
  /\ http.raised # "RingCentralRateLimitActive" => http.retry_after = 0
  /\ http.raised # "HTTPException" => http.inner = 404
HttpIdle == HttpInit /\ http.endpoint = "transcribe_url" /\ http.raised = "ok"

\* max(1, int(getattr(rle, "retry_after", 30.0))), the retry_after `ra` in ticks
RetryAfterHeader(ra) == Max2(1, ra \div TicksPerSecond)

\* transcribe_url and transcribe_id: the signal becomes 429 with Retry-After,
\* an HTTPException passes, any other Exception becomes 500
AsrRouteResponse(raised, ra, inner) ==
  CASE raised = "ok" -> [status |-> 200, header |-> NoHeader]
    [] raised = "RingCentralRateLimitActive" ->
         [status |-> 429, header |-> RetryAfterHeader(ra)]
    [] raised = "HTTPException" -> [status |-> inner, header |-> NoHeader]
    [] OTHER -> [status |-> 500, header |-> NoHeader]

\* download_recording: `except Exception` turns everything raised by
\* fetch_recording_bytes, the signal included, into 400
DownloadRouteResponse(raised, ra) ==
  IF raised = "ok" THEN [status |-> 200, header |-> NoHeader]
                   ELSE [status |-> 400, header |-> NoHeader]

\* the endpoint handles the request
RouteCall ==
  /\ ~http.called
  /\ LET r == IF http.endpoint = "download_recording"
                THEN DownloadRouteResponse(http.raised, http.retry_after)
                ELSE AsrRouteResponse(http.raised, http.retry_after, http.inner)
     IN http' = [http EXCEPT !.called = TRUE, !.status = r.status,
                             !.header = r.header]
  /\ UNCHANGED notHttp

(***************************************************************************)
(* _retry_after_seconds (app/modules/recording/service.py) on its own      *)
(***************************************************************************)
\* a Retry-After header that float() rejects (an HTTP date)
NonNumericHeader == -2

RetryInputs ==
  [status : TransientStatuses,
   retry_after : {NoHeader, NonNumericHeader} \cup 0..MaxRetryAfterHeader,
   attempt : 1..MaxAttemptInput, jitter : Jitters,
   called : {FALSE}, result : {0}]

RetryInit == retryCall \in RetryInputs
RetryIdle ==
  retryCall = [status |-> 429, retry_after |-> NoHeader, attempt |-> 1,
               jitter |-> 0, called |-> FALSE, result |-> 0]

\* _retry_after_seconds(resp, attempt) is called; the result is in ticks
RetryAfterCall ==
  /\ ~retryCall.called
  /\ retryCall' =
       [retryCall EXCEPT
          !.called = TRUE,
          !.result = RetryAfterSeconds(
                       Response(retryCall.status, retryCall.retry_after,
                                NoHeader, NoHeader),
                       retryCall.attempt, retryCall.jitter)]
  /\ UNCHANGED notRetry

(***************************************************************************)
(* call_ringcentral_api (app/ringcentral/client.py)                        *)
(***************************************************************************)
\* MAX_RETRIES = 3
MAX_RETRIES == 3

\* what one request of the call can give: a 2xx response, one whose body
\* cannot be read (binary downloads), 429, 401, another status outside
\* 2xx, aiohttp.ClientPayloadError / asyncio.TimeoutError, another
\* aiohttp.ClientError
RcOutcomes == {"ok", "read_error", "429", "401", "other_status", "timeout",
               "client_error"}

RcInit ==
  rcCall \in [auth_type : {"bearer", "basic", "jwt"}, binary : BOOLEAN,
              pc : {"request"}, retry_count : {0}, refreshes : {0},
              error : {"none"}, responses : {<<>>}]
RcIdle == RcInit /\ rcCall.auth_type = "bearer" /\ rcCall.binary = FALSE

\* the recursive call with retry_count + 1
RcRetry(call) == [call EXCEPT !.retry_count = @ + 1]
\* raise RingCentralApiError(...)
RcRaise(call, err) == [call EXCEPT !.pc = "raised", !.error = err]

\* one request of call_ringcentral_api at the current retry_count and the
\* handling of what it gives (lines 239-349)
RcApiRequest ==
  /\ rcCall.pc = "request"
  /\ \E r \in RcOutcomes, refreshFails \in BOOLEAN :
       /\ r = "read_error" => rcCall.binary
       /\ refreshFails => (r = "401" /\ rcCall.auth_type = "bearer" /\ rcCall.retry_count = 0)
       /\ LET call == [rcCall EXCEPT !.responses = Append(@, r)]
          IN rcCall' =
               CASE r = "429" ->
                      IF call.retry_count >= MAX_RETRIES
                        THEN RcRaise(call, "rate_limit")
                        ELSE RcRetry(call)
                 [] r = "401" /\ call.auth_type = "bearer" ->
                      IF call.retry_count > 0
                        THEN RcRaise(call, "auth")
                        ELSE IF refreshFails
                               THEN RcRaise([call EXCEPT !.refreshes = @ + 1], "refresh")
                               ELSE RcRetry([call EXCEPT !.refreshes = @ + 1])
                 [] r \in {"401", "other_status"} /\ ~(r = "401" /\ call.auth_type = "bearer") ->
                      RcRaise(call, "status")
                 [] r \in {"read_error", "timeout"} ->
                      IF call.retry_count < MAX_RETRIES
                        THEN RcRetry(call)
                        ELSE RcRaise(call, "connection")
                 [] r = "client_error" -> RcRaise(call, "client")
                 [] OTHER -> [call EXCEPT !.pc = "returned"]
  /\ UNCHANGED notRc

(***************************************************************************)
(* Specifications                                                          *)
(***************************************************************************)
LsnIdle == LsnInit /\ lsnHandler = "worker"
FetchIdle ==
  FetchInit /\ strict = FALSE /\ callers = AllCallers /\ rc_next_allowed_at = 0

WrlIdle == WrlInit /\ requests_per_minute = 1

\* the ServiceBusManager alone
InitManager == MgrInit /\ LsnIdle /\ FetchIdle /\ AdmIdle /\ WrlIdle /\ HttpIdle /\ RetryIdle /\ RcIdle
SpecManager == InitManager /\ [][MgrNext]_vars

\* the ServiceBusQueueListener alone, with either kind of handler
InitListener == MgrInit /\ LsnInit /\ FetchIdle /\ AdmIdle /\ WrlIdle /\ HttpIdle /\ RetryIdle /\ RcIdle
SpecListener == InitListener /\ [][LsnNext]_vars

\* receive_messages returns at least one message
LsnReceiveSome ==
  LsnReceive /\ \E m \in LsnMsgs : lsnState[m] = "queued" /\ lsnState'[m] = "delivered"

\* The listener under the scheduling of the event loop: a sleep returns, a
\* handler and a disposition call end, and a backend that recovers delivers
\* a queued message to a receive loop that keeps asking for one.
LsnFairness ==
  /\ WF_vars(LsnBackoffDone)
  /\ WF_vars(LsnWorkerReturns \/ LsnHandlerReturns \/ LsnHandlerRaises)
  /\ WF_vars(LsnSettled)
  /\ SF_vars(LsnReceiveSome)

SpecListenerLive == InitListener /\ [][LsnNext]_vars /\ LsnFairness

\* concurrent calls of fetch_recording_bytes in a fresh process, in strict
\* or lenient mode
InitFetch ==
  /\ MgrInit /\ LsnIdle /\ AdmIdle /\ WrlIdle /\ HttpIdle /\ RetryIdle /\ RcIdle
  /\ FetchInit /\ callers = AllCallers /\ rc_next_allowed_at = 0
SpecFetch == InitFetch /\ [][FetchNext]_vars

\* one call of fetch_recording_bytes, in strict or lenient mode, in a fresh
\* process or after earlier calls
InitFetchOne == MgrInit /\ LsnIdle /\ AdmIdle /\ WrlIdle /\ FetchInit /\ callers = {"a"} /\ HttpIdle /\ RetryIdle /\ RcIdle
SpecFetchOne == InitFetchOne /\ [][FetchNext]_vars

\* calls of _can_process_more for every host size, counter and memory reading
InitAdmission == MgrInit /\ LsnIdle /\ FetchIdle /\ AdmInit /\ WrlIdle /\ HttpIdle /\ RetryIdle /\ RcIdle
SpecAdmission == InitAdmission /\ [][CanProcessMoreCall]_vars

\* the WhisperRateLimiter alone, and under the scheduling of the event loop:
\* a sleep ends and the first waiter of a released lock is resumed
InitLimiter == MgrInit /\ LsnIdle /\ FetchIdle /\ AdmIdle /\ WrlInit /\ HttpIdle /\ RetryIdle /\ RcIdle
SpecLimiter == InitLimiter /\ [][WrlNext]_vars
WrlFairness ==
  \A c \in LimiterTasks : WF_vars(WrlSleepEnds(c)) /\ WF_vars(WrlResume(c))
SpecLimiterLive == InitLimiter /\ [][WrlNext]_vars /\ WrlFairness

\* one request to each endpoint, for every outcome of its service call
InitRoutes ==
  MgrInit /\ LsnIdle /\ FetchIdle /\ AdmIdle /\ WrlIdle /\ HttpInit /\ RetryIdle /\ RcIdle
SpecRoutes == InitRoutes /\ [][RouteCall]_vars

\* calls of _retry_after_seconds for every transient status, header, attempt
\* and jitter
InitRetryAfter ==
  MgrInit /\ LsnIdle /\ FetchIdle /\ AdmIdle /\ WrlIdle /\ HttpIdle /\ RetryInit /\ RcIdle
SpecRetryAfter == InitRetryAfter /\ [][RetryAfterCall]_vars

\* one call of call_ringcentral_api with each auth_type, binary or not
InitRingCentral ==
  MgrInit /\ LsnIdle /\ FetchIdle /\ AdmIdle /\ WrlIdle /\ HttpIdle /\ RetryIdle /\ RcInit
SpecRingCentral == InitRingCentral /\ [][RcApiRequest]_vars

Init ==
  MgrInit /\ LsnInit /\ FetchInit /\ AdmInit /\ WrlInit /\ HttpInit /\ RetryInit /\ RcInit

Next ==
  MgrNext \/ LsnNext \/ FetchNext \/ CanProcessMoreCall \/ WrlNext \/ RouteCall
  \/ RetryAfterCall \/ RcApiRequest

Spec == Init /\ [][Next]_vars

(***************************************************************************)
(* Properties                                                              *)
(***************************************************************************)
\* the listener will make no further call for message m: it was delivered
\* and is neither being handled nor waiting in the batch
LsnDeliveryOver(m) ==
  /\ lsnState[m] = "delivered"
  /\ lsnCur # m
  /\ \A i \in 1..Len(lsnBatch) : lsnBatch[i] # m

\* C1: every delivered message gets exactly one terminal disposition call
\* (complete or abandon): never two, never both, and not zero once the
\* listener (or the manager's unit) is through with the delivery.
C1_ExactlyOneDisposition ==
  /\ \A m \in LsnMsgs :
       /\ lsnCompletes[m] + lsnAbandons[m] <= 1
       /\ LsnDeliveryOver(m) => lsnCompletes[m] + lsnAbandons[m] = 1
  /\ \A m \in MgrMsgs :
       /\ mgrCompletes[m] <= 1
       /\ unit[m] = "done" => mgrCompletes[m] = 1

\* C3: active_tasks is never negative, and it is 0 whenever no dispatched
\* unit is inside _process_message_wrapper.
C3_ActiveTasksNonNegative ==
  /\ active_tasks >= 0
  /\ (\A m \in MgrMsgs : unit[m] \notin InWrapper) => active_tasks = 0

\* C3 witness: two units ran in the pool at the same time, one of them went
\* through a raising complete_message, and all work has finished.
C3_Witness ==
  /\ \A m \in MgrMsgs : unit[m] = "done"
  /\ \E m \in MgrMsgs : mgrCompletes[m] >= 3
  /\ \E m \in MgrMsgs : mgrResponses[m] >= 1
  /\ active_tasks = 0

\* C4: a delivered message whose body is a dict without a non-empty callId
\* never reaches the transcription processor, is never abandoned, and is
\* completed exactly once.
C4_MissingCallIdCompletedOnce ==
  \A m \in LsnMsgs :
    (/\ lsnHandler = "worker"
     /\ lsnState[m] = "delivered"
     /\ lsnBody[m].kind = "dict"
     /\ ~Truthy(lsnBody[m].callId))
    => /\ lsnProcessed[m] = 0
       /\ lsnAbandons[m] = 0
       /\ lsnCompletes[m] <= 1
       /\ LsnDeliveryOver(m) => lsnCompletes[m] = 1

\* the fetch of caller c has ended with an exception
FetchRaised(c) == fpc[c] \in {"raised_rl", "raised_http", "raised_rt", "raised_tok"}

\* caller c sends an HTTP request in this step
Sends(c) == sent'[c] # sent[c]

\* C2: when a caller records a backoff b at time t after a transient
\* response, next_allowed_at becomes at least t + b, and no other caller
\* sends an HTTP attempt before t + b.
C2_BackoffThrottlesOtherCallers ==
  [][ /\ \A c \in callers :
           (fpc[c] = "record" /\ fpc'[c] # "record")
             => rc_next_allowed_at' >= now + wait_s[c]
      /\ \A c, d \in callers :
           (c # d /\ now < backoffUntil[c]) => ~Sends(d) ]_vars

C6_SecondUnauthorizedIsTerminal ==
  [][ \A c \in callers :
        /\ (fpc[c] = "got" /\ resp[c].status = 401 /\ consec401[c] = 1
            /\ fpc'[c] # "got")
             => refreshes'[c] = refreshes[c] + 1
        /\ consec401[c] >= 2
             => /\ ~Sends(c)
                /\ refreshes'[c] = refreshes[c]
                /\ fpc'[c] \in {"got", "raised_http"} ]_vars

\* C7: in strict mode an attempt that is about to start while
\* now < next_allowed_at raises RingCentralRateLimitActive carrying
\* next_allowed_at - now, and its request is not sent.
C7_StrictRaisesWhileThrottled ==
  [][ \A c \in callers :
        (strict /\ fpc[c] = "wait" /\ now < rc_next_allowed_at /\ fpc'[c] # "wait")
          => /\ fpc'[c] = "raised_rl"
             /\ retry_after'[c] = rc_next_allowed_at - now ]_vars

\* C8: a successful response with remaining <= 0 and window W > 0 handled at
\* time t sets next_allowed_at to t + W, and no caller sends an HTTP attempt
\* before t + W, in strict and in lenient mode.
C8_CourtesyPauseHoldsAttempts ==
  [][ /\ \A c \in callers :
           (fpc[c] = "pause" /\ RateWindowExhausted(resp[c]) /\ fpc'[c] # "pause")
             => rc_next_allowed_at' = now + resp[c].window * TicksPerSecond
      /\ \A c, d \in callers : now < pauseUntil[c] => ~Sends(d) ]_vars

PlainBackoffTicks(k) == (Pow2(k) - 1) * TicksPerSecond

\* SDK attempts of caller c that have been answered
Answered(c) == sent[c].sdk - (IF fpc[c] = "inflight" THEN 1 ELSE 0)

\* the responses of caller c so far are k <= 3 transient 5xx/408 without
\* Retry-After, all on the SDK path
PlainRun(c) ==
  /\ shape[c] = "plain"
  /\ path[c] = "sdk"
  /\ sent[c].direct = 0
  /\ Answered(c) < max_attempts

\* the same responses followed by a 200
PlainRunThen200(c) ==
  /\ shape[c] = "plain200"
  /\ sent[c].direct = 0

\* for a run of plain transient responses and a 200: k + 1 attempts were
\* sent, at least 2^0 + ... + 2^(k-1) seconds were slept in backoff, and the
\* fetch has not failed
PlainRunSucceeds(c) ==
  /\ PlainRun(c) => ~FetchRaised(c)
  /\ PlainRunThen200(c)
       => /\ ~FetchRaised(c)
          /\ sent[c].sdk <= max_attempts
          /\ slept[c] >= PlainBackoffTicks(sent[c].sdk - 1)

\* C10 as claimed: k <= 3 consecutive transient 5xx/408 responses without
\* Retry-After and then a 200: the fetch succeeds after exactly k + 1
\* attempts, having slept at least 2^0 + ... + 2^(k-1) seconds in backoff.
C10_PlainTransientsThenSuccess ==
  \A c \in callers : PlainRunSucceeds(c)

\* C10 as amended: the same, in lenient mode (in strict mode the first
\* transient response ends the fetch with RingCentralRateLimitActive).
C10_PlainTransientsThenSuccessLenient ==
  ~strict => \A c \in callers : PlainRunSucceeds(c)

\* C10 witness: lenient mode, three plain transient responses and a 200:
\* the fetch returned after 4 attempts and at least 7 seconds of backoff.
C10_Witness ==
  \E c \in callers :
    /\ ~strict
    /\ PlainRunThen200(c)
    /\ sent[c].sdk = max_attempts
    /\ slept[c] >= 7 * TicksPerSecond
    /\ fpc[c] = "returned"

\* the response caller c is handling is a 429 that carries Retry-After
RetryAfter429(c) ==
  /\ fpc[c] \in {"got", "record"}
  /\ resp[c].status = 429
  /\ resp[c].retry_after # NoHeader

\* the steps after a 429 with Retry-After: r.  wait_s is r; the store leaves
\* next_allowed_at at now + r or later; the sleep that follows ends no
\* earlier than r after the store, no request is sent during it, and only
\* then the loop goes on; a 200 leads to the return of the bytes and to
\* nothing else
RetryAfterHonored(c) ==
  /\ (RetryAfter429(c) /\ fpc[c] = "got" /\ fpc'[c] # "got")
       => /\ fpc'[c] = "record"
          /\ wait_s'[c] = resp[c].retry_after * TicksPerSecond
  /\ (RetryAfter429(c) /\ fpc[c] = "record" /\ fpc'[c] # "record")
       => rc_next_allowed_at' >= now + resp[c].retry_after * TicksPerSecond
  /\ (fpc[c] = "backoff" /\ fpc'[c] # "backoff")
       => /\ now >= backoffUntil[c]
          /\ slept'[c] = slept[c] + wait_s[c]
  /\ fpc[c] = "backoff" => ~Sends(c)
  /\ fpc[c] \in {"pause", "pausesleep"}
       => fpc'[c] \in {"pause", "pausesleep", "returned"}

AsksToken(c) == fpc[c] \in {"tok", "tok_lock"} /\ ~force_refresh[c]

\* the cached token has a recorded expiry more than 30 s ahead
TokenFresh ==
  /\ rc_cached_direct_token # 0
  /\ rc_cached_direct_token_expiry # NoExpiry
  /\ rc_cached_direct_token_expiry > now + TokenReuseMarginSeconds * TicksPerSecond

\* the cached token was stored without an expiry
TokenWithoutExpiry ==
  /\ rc_cached_direct_token # 0
  /\ rc_cached_direct_token_expiry = NoExpiry

\* the expiries now + reported_ttl - 60 s for the TTLs an exchange reports
ExpiriesFrom(t) ==
  {t + (ttl - TokenCacheMarginSeconds) * TicksPerSecond : ttl \in TtlSeconds}

\* one look at the cache by caller c: when `reusable` holds the cached token
\* is returned and no exchange is made, otherwise the call goes on towards
\* the exchange; an exchange that yields a token caches it with one of the
\* expiries `expiries`
TokenCacheRule(c, reusable, expiries) ==
  /\ (AsksToken(c) /\ fpc'[c] # fpc[c])
       => IF reusable
            THEN /\ fpc'[c] = "wait"
                 /\ token'[c] = rc_cached_direct_token
                 /\ tokensIssued' = tokensIssued
                 /\ UNCHANGED <<rc_cached_direct_token, rc_cached_direct_token_expiry>>
            ELSE fpc'[c] = IF fpc[c] = "tok" THEN "tok_lock" ELSE "tok_exchange"
  /\ (fpc[c] = "tok_exchange" /\ tokensIssued' # tokensIssued)
       => /\ rc_cached_direct_token' = tokensIssued'
          /\ token'[c] = tokensIssued'
          /\ rc_cached_direct_token_expiry' \in expiries

\* C12 as claimed: without force the cached token is returned, with no
\* credential exchange, exactly when a token is cached and its expiry is
\* more than 30 s ahead; otherwise a credential exchange is made and the new
\* token is cached with expiry now + reported_ttl - 60 s.
C12_TokenReusedIffFresh ==
  [][ \A c \in callers : TokenCacheRule(c, TokenFresh, ExpiriesFrom(tok_now[c])) ]_vars

\* C12 as amended: the cached token is returned exactly when it is cached and
\* either has no recorded expiry or expires more than 30 s ahead; a new token
\* is cached with expiry now + reported_ttl - 60 s when the exchange reports
\* a TTL and without expiry when it reports none.
C12_TokenReusedIffUsable ==
  [][ \A c \in callers :
        TokenCacheRule(c, TokenFresh \/ TokenWithoutExpiry,
                       ExpiriesFrom(tok_now[c]) \cup {NoExpiry}) ]_vars

\* C12 witness: one caller's exchange cached a token with a 100 s TTL (40 s
\* left after the 60 s margin) and the other caller got that token from the
\* cache, without an exchange of its own.
C12_Witness ==
  \E c, d \in callers :
    /\ c # d
    /\ tokensIssued = 1
    /\ rc_cached_direct_token = 1
    /\ rc_cached_direct_token_expiry = now + 40 * TicksPerSecond
    /\ token[c] = 1
    /\ token[d] = 1
    /\ fpc[c] \notin {"tok", "tok_lock", "tok_exchange"}
    /\ fpc[d] \notin {"tok", "tok_lock", "tok_exchange"}

\* C13: a message whose handler returned normally has got one complete call
\* and no abandon call; one whose handler raised an exception has got one
\* abandon call and no complete call; and no disposition call is made for a
\* message before its handler has finished (in particular not while the
\* handler is running).
C13_DispositionFollowsHandler ==
  \A m \in LsnMsgs :
    /\ lsnOutcome[m] = "returned" => lsnCompletes[m] = 1 /\ lsnAbandons[m] = 0
    /\ lsnOutcome[m] = "raised" => lsnAbandons[m] = 1 /\ lsnCompletes[m] = 0
    /\ lsnOutcome[m] = "none" => lsnCompletes[m] = 0 /\ lsnAbandons[m] = 0
    /\ (lsnPc = "handling" /\ lsnCur = m) => lsnOutcome[m] = "none"

\* C13 witness: of one batch, one message was completed after its handler
\* returned and the other abandoned after its handler raised.
C13_Witness ==
  \E m, n \in LsnMsgs :
    /\ lsnHandler = "other"
    /\ lsnOutcome[m] = "returned"
    /\ lsnCompletes[m] = 1
    /\ lsnOutcome[n] = "raised"
    /\ lsnAbandons[n] = 1
    /\ LsnDeliveryOver(m)
    /\ LsnDeliveryOver(n)

\* C14: a message whose processing failed because the audio fetch or
\* transcription gave up (TranscriptionJobError out of
\* process_transcription_job) makes its handler fail, is never completed,
\* and is abandoned once the listener is through with it.
C14_FailedJobIsAbandoned ==
  \A m \in LsnMsgs :
    lsnJob[m] = "TranscriptionJobError"
      => /\ lsnOutcome[m] = "raised"
         /\ lsnCompletes[m] = 0
         /\ LsnDeliveryOver(m) => lsnAbandons[m] = 1

\* C15: a message during whose handling RingCentralRateLimitActive was raised
\* is completed: its handler returned normally, it got one complete call and
\* no abandon call.
C15_RateLimitSignalCompletes ==
  \A m \in LsnMsgs :
    lsnJob[m] = "RingCentralRateLimitActive"
      => /\ lsnOutcome[m] = "returned"
         /\ lsnCompletes[m] = 1
         /\ lsnAbandons[m] = 0

\* C15 witness: the worker handler processed a message, the processing
\* raised RingCentralRateLimitActive, and the listener has completed the
\* message and gone on.
C15_Witness ==
  \E m \in LsnMsgs :
    /\ lsnHandler = "worker"
    /\ lsnProcessed[m] = 1
    /\ lsnJob[m] = "RingCentralRateLimitActive"
    /\ lsnCompletes[m] = 1
    /\ LsnDeliveryOver(m)

\* the decoded body is not a JSON object: None (empty body), bytes (not
\* UTF-8), str (not JSON) or a JSON value that is not an object
NonObjectBody(body) == body.kind \in {"none", "bytes", "text", "list"}

SubmittedUnfinished == {m \in MgrMsgs : unit[m] \in {"queued"} \cup InWrapper}

\* C17: active_tasks goes up at the submission of a unit and down at its
\* completion, so it counts the units submitted and not yet finished, and
\* there are never more than max_workers of them, also while the messages of
\* one batch are admitted back-to-back before a worker thread has started.
C17_ActiveTasksCountsSubmitted ==
  /\ active_tasks = Cardinality(SubmittedUnfinished)
  /\ Cardinality(SubmittedUnfinished) <= max_workers

\* the admission decision with readable metrics: false when the counter has
\* reached max_workers, false when memory is above the ceiling, else true
AdmitWithMetrics(workers, mem, active) ==
  ~(active >= workers) /\ ~(mem > max_memory_percent)

\* C18 as claimed: the result is AdmitWithMetrics when the memory reading
\* succeeds, and the truth value of active_tasks < max_workers / 2 (the exact
\* half: 2 * active_tasks < max_workers) when it fails, for every host size.
C18_FallbackIsExactHalf ==
  admission.called
    => LET workers == MaxWorkers(admission.cpus)
       IN admission.result =
            IF admission.mem = -1
              THEN 2 * admission.active < workers
              ELSE AdmitWithMetrics(workers, admission.mem, admission.active)

\* C18 as amended: when the reading fails the result is the truth value of
\* active_tasks < floor(max_workers / 2), which for odd max_workers is
\* 2 * active_tasks < max_workers - 1.
C18_FallbackIsFlooredHalf ==
  admission.called
    => LET workers == MaxWorkers(admission.cpus)
       IN admission.result =
            IF admission.mem = -1
              THEN 2 * admission.active < workers - (workers % 2)
              ELSE AdmitWithMetrics(workers, admission.mem, admission.active)

\* C18 witness: max_workers is odd (5), the memory reading failed, and with
\* active_tasks = 2 (below 2.5, not below 2) the call returned false.
C18_Witness ==
  /\ MaxWorkers(admission.cpus) = 5
  /\ admission.mem = -1
  /\ admission.active = 2
  /\ admission.called
  /\ admission.result = FALSE

\* C19: a message denied admission is handled by _process_message_sync on the
\* receiving thread before the next message of the batch is examined: in that
\* step it gets exactly one complete call and leaves the batch, and it is
\* never submitted to the worker pool, neither before nor after.
C19_DeniedHandledOnce ==
  [][ mgrPc = "sync"
        => LET m == Head(mgrBatch)
           IN /\ unit[m] = "none"
              /\ IF mgrPc' = "sync"
                   THEN /\ unit'[m] = "none"
                        /\ mgrCompletes'[m] = mgrCompletes[m]
                        /\ mgrBatch' = mgrBatch
                   ELSE /\ mgrPc' = "dispatch"
                        /\ mgrBatch' = Tail(mgrBatch)
                        /\ unit'[m] = "done"
                        /\ mgrCompletes[m] = 0
                        /\ mgrCompletes'[m] = 1 ]_vars

\* C20: the update of next_allowed_at is an atomic read-modify-write, so no
\* recorded backoff is lost: when caller c stores its backoff, next_allowed_at
\* is afterwards at least c's own target now + b and at least the target of
\* every backoff another caller has recorded and not yet slept out.
C20_NoLostBackoff ==
  [][ \A c \in callers :
        (fpc[c] = "record" /\ fpc'[c] # "record")
          => /\ rc_next_allowed_at' >= now + wait_s[c]
             /\ \A d \in callers \ {c} :
                  rc_next_allowed_at' >= backoffUntil[d] ]_vars

C23_SleepIsInitialTimesTwoToTheK ==
  lsnPc = "backoff" =>
    /\ backoff = Min2(InitialBackoff * Pow2(lsnErrors), backoff_max)
    /\ backoff >= 1
    /\ backoff <= BackoffCap

\* C24: the first backend error after a successful receive (no failure since
\* that receive) is retried after the initial backoff.
C24_BackoffResetAfterReceive ==
  (lsnPc = "backoff" /\ lsnErrors = 0) => backoff = InitialBackoff

\* C25: the receive loop ends only after stop() was called; a backoff sleep
\* that ends without stop() leads to the next receive, whatever the number
\* of errors before it; and when the backend recovers, a running listener
\* receives the queued messages (or is stopped first).
C25_LoopRetriesUntilStopped ==
  /\ [](lsnPc = "ended" => shutdown_event)
  /\ [][(lsnPc = "backoff" /\ lsnPc' # "backoff")
          => (lsnPc' = "receiving" \/ shutdown_event)]_vars
  /\ ((task = "alive" /\ LsnQueued # {}) ~> (LsnQueued = {} \/ shutdown_event))

\* C25 witness: after so many errors that the backoff is at its cap, the
\* running loop has received a message and is handling it
C25_Witness ==
  /\ backoff = BackoffCap
  /\ lsnPc = "handling"
  /\ ~shutdown_event
  /\ lsnTasks = 1

\* C26: while the handler of a message runs, a lock-renewal task for that
\* message is running, and once the message is completed or abandoned the
\* task has been cancelled.
C26_LockRenewalRunsWithHandler ==
  \A m \in LsnMsgs :
    /\ (lsnPc = "handling" /\ lsnCur = m) => LockRenewalTask(m) = "running"
    /\ (lsnCompletes[m] + lsnAbandons[m] > 0) => LockRenewalTask(m) = "cancelled"

\* C29: while the handler of one message is suspended and the listener is not
\* being stopped, the listener can receive a message that waits in the queue.
C29_ReceivesWhileHandlerSuspended ==
  (lsnPc = "handling" /\ LsnQueued # {} /\ ~shutdown_event)
    => ENABLED LsnReceiveSome

\* C27: as long as reset() has not been called, any requests_per_minute + 1
\* returns of acquire() are at least 60 s apart from first to last, so that no
\* interval [t, t + 60 s) holds more than requests_per_minute returns,
\* whatever the number of tasks calling.
C27_AtMostNReturnsPerWindow ==
  ~wrlResetCalled =>
    \A i \in 1..Len(wrlReturns) :
      (i + requests_per_minute <= Len(wrlReturns))
        => wrlReturns[i + requests_per_minute] - wrlReturns[i] >= WindowTicks

\* C27 witness: without reset(), more than requests_per_minute calls have
\* returned, the last of them after a task waited for the lock
C27_Witness ==
  /\ ~wrlResetCalled
  /\ Len(wrlReturns) > requests_per_minute
  /\ wrlCalls = MaxAcquireCalls
  /\ \E c \in LimiterTasks : wrlPc[c] = "waiting"

\* C28: with requests_per_minute >= 1 every acquire() call that is suspended,
\* waiting for the lock or sleeping inside it, eventually returns, also when
\* other tasks keep calling acquire() and when reset() is called meanwhile.
C28_EveryAcquireReturns ==
  \A c \in LimiterTasks : (wrlPc[c] # "idle") ~> (wrlPc[c] = "idle")

\* C28 witness: reset() has been called while one task sleeps inside
\* acquire() and another one waits for the lock
C28_Witness ==
  /\ wrlResetCalled
  /\ request_times = <<>>
  /\ \E c \in LimiterTasks : wrlPc[c] = "sleeping"
  /\ \E c \in LimiterTasks : wrlPc[c] = "waiting"

\* C30: every endpoint in front of the recording fetch answers a raised
\* rate-limit-active signal with status 429 and a Retry-After header of at
\* least 1 second.
C30_SignalAnsweredWith429 ==
  (http.called /\ http.raised = "RingCentralRateLimitActive")
    => (http.status = 429 /\ http.header >= 1)

\* the handler of message m has been called
LsnHandlerCalled(m) ==
  lsnOutcome[m] # "none" \/ (lsnCur = m /\ lsnPc = "handling")

\* C31: for a delivered body that is a dict with a non-empty callId,
\* handle_audio_processing_message invokes the processor exactly once, the
\* payload it passes equals the body, and the body of a delivered message is
\* never changed.
C31_ProcessorInvokedOnceWithBody ==
  /\ [](\A m \in LsnMsgs :
          (/\ lsnHandler = "worker"
           /\ LsnHandlerCalled(m)
           /\ lsnBody[m].kind = "dict"
           /\ Truthy(lsnBody[m].callId))
            => /\ lsnProcessed[m] = 1
               /\ ProcessorPayload(lsnBody[m]) = lsnBody[m])
  /\ [][\A m \in LsnMsgs :
          lsnState[m] = "delivered" => lsnBody'[m] = lsnBody[m]]_vars

\* C31 witness: the worker handler has returned for a dict body with callId
\* and a further key, after one invocation of the processor
C31_Witness ==
  \E m \in LsnMsgs :
    /\ lsnHandler = "worker"
    /\ lsnOutcome[m] = "returned"
    /\ lsnBody[m].kind = "dict"
    /\ lsnBody[m].callId = "c1"
    /\ lsnBody[m].call_id = "c2"
    /\ lsnProcessed[m] = 1
    /\ lsnJob[m] = "ok"

\* the values the claim lists for attempts 1 to 4, in seconds
ClaimedBase == <<1, 2, 4, 8>>

\* C32: _retry_after_seconds returns a numeric Retry-After header unchanged;
\* without one it returns at least 30 s for a 429; otherwise a value that is
\* never above 16.5 s and lies in [1, 1.5), [2, 2.5), [4, 4.5), [8, 8.5) for
\* attempts 1 to 4.
C32_RetryAfterSecondsValue ==
  retryCall.called =>
    IF retryCall.retry_after >= 0
      THEN retryCall.result = retryCall.retry_after * TicksPerSecond
      ELSE IF retryCall.status = 429
             THEN retryCall.result >= 30 * TicksPerSecond
             ELSE /\ 2 * retryCall.result <= 33 * TicksPerSecond
                  /\ retryCall.attempt <= 4 =>
                       /\ retryCall.result >=
                            ClaimedBase[retryCall.attempt] * TicksPerSecond
                       /\ 2 * retryCall.result <
                            (2 * ClaimedBase[retryCall.attempt] + 1) * TicksPerSecond

\* C32 witness: the function was called for a 503 whose Retry-After header is
\* not numeric, at attempt 4, and drew a jitter
C32_Witness ==
  /\ retryCall.called
  /\ retryCall.status = 503
  /\ retryCall.retry_after = NonNumericHeader
  /\ retryCall.attempt = 4
  /\ retryCall.jitter > 0
  /\ retryCall.result = 8 * TicksPerSecond + retryCall.jitter

\* C33: the manager has sent a response only for a message one of whose
\* transcriptions succeeded; a message whose primary and fallback
\* transcription both failed has, once its unit is done, at least one
\* complete_message call and no response.
C33_ResponseOnlyOnSuccess ==
  \A m \in MgrMsgs :
    /\ mgrResponses[m] > 0
         => (mgrTranscription[m].primary = "ok" \/ mgrTranscription[m].fallback = "ok")
    /\ (/\ unit[m] = "done"
        /\ mgrTranscription[m].primary = "failed"
        /\ mgrTranscription[m].fallback = "failed")
         => (mgrCompletes[m] >= 1 /\ mgrResponses[m] = 0)

\* C33 witness: one message is done after both transcriptions failed, and
\* another one has its response after a successful transcription
C33_Witness ==
  /\ \E m \in MgrMsgs :
       /\ unit[m] = "done"
       /\ mgrTranscription[m].primary = "failed"
       /\ mgrTranscription[m].fallback = "failed"
       /\ mgrCompletes[m] >= 1
       /\ mgrResponses[m] = 0
  /\ \E m \in MgrMsgs :
       /\ mgrTranscription[m].primary = "ok"
       /\ mgrResponses[m] = 1

\* C34: next_allowed_at never decreases: no step of the fetch path (the
\* store of a backoff after a transient response, the store of the courtesy
\* pause after a successful response) replaces it with an earlier time,
\* under any interleaving of concurrent fetches.
C34_NextAllowedAtNeverDecreases ==
  [][ rc_next_allowed_at' >= rc_next_allowed_at ]_vars

\* the callers whose call without force was inside
\* _get_or_refresh_direct_token at the same time as caller c's, c included
TokenCallGroup(c) == {c} \cup tokHist[c].peers

\* every call of the group of caller c has ended
TokenCallsEnded(c) ==
  /\ tokHist[c].peers # {}
  /\ \A d \in TokenCallGroup(c) : tokHist[d].ended # "no"

\* C35 as claimed: when several callers were inside
\* _get_or_refresh_direct_token without force at the same time, with the
\* cache empty or stale, exactly one credential exchange is performed among
\* them and all of them return the token it produced.
C35_OneExchangeAmongConcurrentCalls ==
  \A c \in callers :
    TokenCallsEnded(c)
      => /\ Cardinality({d \in TokenCallGroup(c) : tokHist[d].exchanges > 0}) = 1
         /\ \A d \in TokenCallGroup(c) :
              /\ tokHist[d].exchanges <= 1
              /\ tokHist[d].ended = "returned"
              /\ tokHist[d].got = tokHist[c].got
              /\ tokHist[d].got # 0

\* C35 as amended: the exchanges of such callers are made one at a time
\* under _rc_token_lock and at least one is made; a caller that gets the
\* lock makes an exchange of its own exactly when the cache then holds no
\* token or one whose recorded expiry is at most 30 s ahead, and otherwise
\* returns the cached token without an exchange; a caller that made no
\* exchange returned a token.
C35_ExchangesOneAtATime ==
  /\ [](\A c \in callers : fpc[c] = "tok_exchange" <=> rc_token_lock = c)
  /\ [][ \A d \in callers :
            (fpc[d] = "tok_lock" /\ ~force_refresh[d] /\ fpc'[d] # "tok_lock")
              => IF TokenFresh \/ TokenWithoutExpiry
                   THEN /\ fpc'[d] = "wait"
                        /\ token'[d] = rc_cached_direct_token
                        /\ tokHist'[d].exchanges = 0
                        /\ tokensIssued' = tokensIssued
                        /\ rc_token_lock' = rc_token_lock
                   ELSE /\ fpc'[d] = "tok_exchange"
                        /\ rc_token_lock' = d ]_vars
  /\ [](\A c \in callers :
          TokenCallsEnded(c)
            => /\ \E d \in TokenCallGroup(c) : tokHist[d].exchanges = 1
               /\ \A d \in TokenCallGroup(c) :
                    /\ tokHist[d].exchanges <= 1
                    /\ tokHist[d].exchanges = 0
                         => (tokHist[d].ended = "returned" /\ tokHist[d].got # 0))

\* C35 witness: two callers were inside the call at the same time, one made
\* the exchange and the other returned that token from the cache after it
\* got the lock
C35_Witness ==
  \E c, d \in callers :
    /\ c # d
    /\ d \in tokHist[c].peers
    /\ tokHist[c].exchanges = 1
    /\ tokHist[d].exchanges = 0
    /\ tokHist[c].ended = "returned"
    /\ tokHist[d].ended = "returned"
    /\ tokHist[d].got = tokHist[c].got
    /\ tokHist[c].got # 0

\* C36: the manager sends at most one message to the response queue per
\* received message and never runs the fallback transcription after the
\* primary transcription has succeeded, also when complete_message fails
\* after the primary path has sent its response.
C36_AtMostOneResponse ==
  \A m \in MgrMsgs :
    /\ mgrResponses[m] <= 1
    /\ mgrTranscription[m].primary = "ok" => mgrTranscription[m].fallback = "none"

\* C37: once stop() has set running to false, no received message is
\* completed without having been processed: a complete_message call made
\* while running is false is made by the pool unit that processes the
\* message (inside _process_message_wrapper), and a message of the batch in
\* flight that no unit processes stays uncompleted.
C37_NoCompleteWithoutProcessingAfterStop ==
  [][ ~running
        => \A m \in MgrMsgs :
             mgrCompletes'[m] > mgrCompletes[m] => unit[m] \in InWrapper ]_vars

\* C38: in strict mode a transient response (429/500/502/503/504/408) makes
\* the fetch compute its backoff, store next_allowed_at (at least now + the
\* backoff) and raise RingCentralRateLimitActive carrying that backoff; the
\* fetch does not sleep, sends no further attempt and does not change to
\* the direct path.
C38_StrictTransientEndsFetch ==
  [][ strict
        => \A c \in callers :
             /\ (/\ fpc[c] = "got"
                 /\ resp[c].status \in TransientStatuses
                 /\ fpc'[c] # "got")
                  => /\ fpc'[c] = "record"
                     /\ wait_s'[c] \in {RetryAfterSeconds(resp[c], attempt[c], j) : j \in Jitters}
             /\ (fpc[c] = "record" /\ fpc'[c] # "record")
                  => /\ fpc'[c] = "raised_rl"
                     /\ retry_after'[c] = wait_s[c]
                     /\ rc_next_allowed_at' >= now + wait_s[c]
             /\ fpc[c] \in {"record", "raised_rl"}
                  => /\ ~Sends(c)
                     /\ path'[c] = path[c]
                     /\ fpc'[c] \in {"record", "raised_rl"}
             /\ fpc[c] = "raised_rl" => fpc'[c] = "raised_rl"
             /\ slept'[c] = slept[c]
             /\ now' = now ]_vars

\* C38 witness: strict mode, the first response of a fetch was transient and
\* the fetch has ended with the signal that carries the backoff it stored
C38_Witness ==
  \E c \in callers :
    /\ strict
    /\ fpc[c] = "raised_rl"
    /\ sent[c].sdk = 1
    /\ sent[c].direct = 0
    /\ path[c] = "sdk"
    /\ retry_after[c] = wait_s[c]
    /\ wait_s[c] > 0
    /\ backoffUntil[c] = now + wait_s[c]
    /\ rc_next_allowed_at >= backoffUntil[c]

\* stop() has returned and start() has not been called again
LsnStopped == shutdown_event /\ stopPc = "idle"

\* C39: after stop() has returned, nothing a handler started for a received
\* message is still running, in particular no worker thread of
\* asyncio.to_thread, and no complete or abandon call is made afterwards.
C39_NothingRunsAfterStop ==
  /\ [](LsnStopped => lsnThreads = {})
  /\ [][ LsnStopped
           => /\ lsnCompletes' = lsnCompletes
              /\ lsnAbandons' = lsnAbandons ]_vars

\* C40: call_ringcentral_api with bearer auth raises its 401 error
\* ("Authentication failed after token refresh") only after it has forced a
\* token refresh and retried within that call, whatever 429 or timeout
\* retries came before the 401, and it forces a refresh at most once.
C40_AuthErrorOnlyAfterRefresh ==
  /\ (rcCall.auth_type = "bearer" /\ rcCall.error = "auth") => rcCall.refreshes = 1
  /\ rcCall.refreshes <= 1

==========================================================================
